---- MODULE Spec2Model ----
(***************************************************************************)
(* Model of the traffic-controller core: the signal state machine          *)
(* (models/signal.py), the conflict monitor (safety/conflict.py), the      *)
(* preemption manager (safety/preemption.py) and the controller tick       *)
(* (controller.py).                                                        *)
(*                                                                         *)
(* Time is kept as ages: step_elapsed is now - step_start_time and         *)
(* hold_elapsed is now - activated_at, both saturating at ElapsedCap,      *)
(* which lies above every duration they are compared with.  Durations are  *)
(* in abstract time units.                                                 *)
(***************************************************************************)
EXTENDS Integers, Sequences, FiniteSets, TLC

\* ------------------------------------------------------------------------
\* Bounds and scaled timing parameters
\* ------------------------------------------------------------------------
YellowClearance == 2
AllRedClearance == 1
MinGreen == 3
MinProtectedLeftGreen == 2
MaxHold == 3
MinHold == 1
CleanChecksToClear == 3
MaxCycles == 1
MaxConflicts == 2
MaxEvents == 2

MaxGreen == 5
MaxProtectedLeftGreen == 4
MinWalk == 1
CrosswalkDistance == 2
PedClearanceSpeed == 2
MinCycle == 10
MaxCycle == 40

MaxThroughQueue == 19
MaxLeftQueue == 3

\* config.py : FlowDefaults (veh/hr/lane), startup lost time (s) and the
\* left-turn queue that triggers a protected arrow
ThroughLaneFlow == 1800
LeftTurnLaneFlow == 1600
StartupLostTime == 2
LeftTurnQueueThreshold == 3

\* The time between two ticks of the run loop, in the unit of AdvanceTime.
TickInterval == 1

Min(a, b) == IF a <= b THEN a ELSE b
Max(a, b) == IF a >= b THEN a ELSE b

ElapsedCap == Max(Max(MinGreen, MinProtectedLeftGreen) + 1, Max(YellowClearance, Max(AllRedClearance, MaxHold))) + 1
Inf == ElapsedCap + 1

None == "None"

\* ------------------------------------------------------------------------
\* Durations are Python floats; the model computes them as exact fractions
\* <<numerator, denominator>> in lowest terms, denominator positive.
\* ------------------------------------------------------------------------
Abs(x) == IF x < 0 THEN -x ELSE x

RECURSIVE GCD(_, _)
GCD(a, b) == IF b = 0 THEN a ELSE GCD(b, a % b)

Rat(n, d) == LET g == GCD(Abs(n), d) IN <<n \div g, d \div g>>

FromInt(i) == <<i, 1>>

\* Sums, products and comparisons cancel common factors first, which keeps
\* the intermediate integers small.
RAdd(a, b) ==
    LET g == GCD(a[2], b[2])
    IN  Rat(a[1] * (b[2] \div g) + b[1] * (a[2] \div g), (a[2] \div g) * b[2])

RSub(a, b) == RAdd(a, <<-b[1], b[2]>>)

RMul(a, b) ==
    LET g1 == GCD(Abs(a[1]), b[2])
        g2 == GCD(Abs(b[1]), a[2])
    IN  Rat((a[1] \div g1) * (b[1] \div g2), (a[2] \div g2) * (b[2] \div g1))

\* a / b for b # 0
RDiv(a, b) == IF b[1] > 0 THEN RMul(a, <<b[2], b[1]>>)
              ELSE RMul(a, <<-b[2], -b[1]>>)

RLe(a, b) ==
    LET g == GCD(a[2], b[2])
    IN  a[1] * (b[2] \div g) <= b[1] * (a[2] \div g)

RLt(a, b) ==
    LET g == GCD(a[2], b[2])
    IN  a[1] * (b[2] \div g) < b[1] * (a[2] \div g)

RMax(a, b) == IF RLt(a, b) THEN b ELSE a

RMin(a, b) == IF RLt(b, a) THEN b ELSE a

RECURSIVE RSum(_)
RSum(seq) == IF seq = << >> THEN FromInt(0) ELSE RAdd(Head(seq), RSum(Tail(seq)))

\* ------------------------------------------------------------------------
\* config.py : TimingConstraints.  A constraints record c is
\*   [min_green_s, max_green_s, yellow_clearance_s, all_red_clearance_s,
\*    min_protected_left_green_s, max_protected_left_green_s, min_walk_s,
\*    ped_clearance_speed_ft_per_s, default_crosswalk_distance_ft,
\*    min_cycle_s, max_cycle_s]
\* ------------------------------------------------------------------------
ped_clearance_s(c) == RDiv(c.default_crosswalk_distance_ft, c.ped_clearance_speed_ft_per_s)

\* TimingConstraints(): the default values.
DefaultTiming ==
    [min_green_s |-> FromInt(7),
     max_green_s |-> FromInt(60),
     yellow_clearance_s |-> FromInt(4),
     all_red_clearance_s |-> <<5, 2>>,
     startup_lost_time_s |-> FromInt(StartupLostTime),
     min_protected_left_green_s |-> FromInt(8),
     max_protected_left_green_s |-> FromInt(25),
     left_turn_queue_threshold |-> LeftTurnQueueThreshold,
     min_walk_s |-> FromInt(7),
     ped_clearance_speed_ft_per_s |-> <<7, 2>>,
     default_crosswalk_distance_ft |-> FromInt(48),
     min_cycle_s |-> FromInt(45),
     max_cycle_s |-> FromInt(150)]

\* The constraints the controller runs with.
Timing ==
    [min_green_s |-> FromInt(MinGreen),
     max_green_s |-> FromInt(MaxGreen),
     yellow_clearance_s |-> FromInt(YellowClearance),
     all_red_clearance_s |-> FromInt(AllRedClearance),
     min_protected_left_green_s |-> FromInt(MinProtectedLeftGreen),
     max_protected_left_green_s |-> FromInt(MaxProtectedLeftGreen),
     min_walk_s |-> FromInt(MinWalk),
     ped_clearance_speed_ft_per_s |-> FromInt(PedClearanceSpeed),
     default_crosswalk_distance_ft |-> FromInt(CrosswalkDistance),
     min_cycle_s |-> FromInt(MinCycle),
     max_cycle_s |-> FromInt(MaxCycle)]

\* ------------------------------------------------------------------------
\* config.py / models/signal.py : enums and the phase ring
\* ------------------------------------------------------------------------
Direction == {"N", "S", "E", "W"}

PhaseStep == {"GREEN", "FLASHING_YELLOW", "YELLOW", "ALL_RED"}

SignalHead == [vehicle_signal |-> "RED", left_turn_signal |-> "RED", pedestrian_signal |-> "DONT_WALK"]

create_standard_4way(timing) ==
    << [phase_id |-> 1, is_left_turn |-> TRUE, served_directions |-> {"N", "S"},
        green_time_s |-> timing.min_protected_left_green_s,
        yellow_time_s |-> timing.yellow_clearance_s,
        all_red_time_s |-> timing.all_red_clearance_s,
        walk_time_s |-> FromInt(0), ped_clearance_time_s |-> FromInt(0),
        use_protected_left |-> FALSE],
       [phase_id |-> 2, is_left_turn |-> FALSE, served_directions |-> {"N", "S"},
        green_time_s |-> timing.min_green_s,
        yellow_time_s |-> timing.yellow_clearance_s,
        all_red_time_s |-> timing.all_red_clearance_s,
        walk_time_s |-> timing.min_walk_s, ped_clearance_time_s |-> ped_clearance_s(timing),
        use_protected_left |-> FALSE],
       [phase_id |-> 3, is_left_turn |-> TRUE, served_directions |-> {"E", "W"},
        green_time_s |-> timing.min_protected_left_green_s,
        yellow_time_s |-> timing.yellow_clearance_s,
        all_red_time_s |-> timing.all_red_clearance_s,
        walk_time_s |-> FromInt(0), ped_clearance_time_s |-> FromInt(0),
        use_protected_left |-> FALSE],
       [phase_id |-> 4, is_left_turn |-> FALSE, served_directions |-> {"E", "W"},
        green_time_s |-> timing.min_green_s,
        yellow_time_s |-> timing.yellow_clearance_s,
        all_red_time_s |-> timing.all_red_clearance_s,
        walk_time_s |-> timing.min_walk_s, ped_clearance_time_s |-> ped_clearance_s(timing),
        use_protected_left |-> FALSE] >>

total_phase_time_s(phase) ==
    RAdd(RAdd(phase.green_time_s, phase.yellow_time_s), phase.all_red_time_s)

\* Variant: the ring is walked two phases at a time.
next_phase_index_skip(ring, current) == (current + 2) % Len(ring)

next_phase_index(ring, current) == (current + 1) % Len(ring)

current_phase(s) == s.phase_ring[s.current_phase_idx + 1]

\* ------------------------------------------------------------------------
\* Cycle plans handed to apply_plan by the controller: the green of every
\* phase and one PhaseDemand per phase carrying its left-turn mode
\* (needs_protected_left is FALSE for a through phase).
\* ------------------------------------------------------------------------
PlanGreens ==
    { [pid \in 1..4 |-> IF pid \in {1, 3} THEN FromInt(MinProtectedLeftGreen)
                                           ELSE FromInt(MinGreen)] }

PlanModes ==
    { << [phase_id |-> 1, needs_protected_left |-> a],
         [phase_id |-> 2, needs_protected_left |-> FALSE],
         [phase_id |-> 3, needs_protected_left |-> b],
         [phase_id |-> 4, needs_protected_left |-> FALSE] >> : a, b \in BOOLEAN }

Plans == [phase_greens : PlanGreens, phase_demands : PlanModes]

\* The plans a tick of controller s can be handed: a plan is read only by a
\* tick that can complete a cycle, every other tick gets one fixed plan.
PlansAt(s) ==
    IF s.current_step = "ALL_RED" /\ s.current_phase_idx = Len(s.phase_ring) - 1
    THEN Plans
    ELSE {CHOOSE plan \in Plans : TRUE}

\* ------------------------------------------------------------------------
\* timing/constraints.py : TimingEnforcer, with constraints c
\* ------------------------------------------------------------------------
\* Variant: the green is not extended to the pedestrian minimum.
enforce_no_ped_extension(c, phase) ==
    LET min_g == IF phase.is_left_turn THEN c.min_protected_left_green_s ELSE c.min_green_s
        max_g == IF phase.is_left_turn THEN c.max_protected_left_green_s ELSE c.max_green_s
        clamped == [phase EXCEPT !.green_time_s = RMax(min_g, RMin(max_g, phase.green_time_s)),
                                 !.yellow_time_s = c.yellow_clearance_s,
                                 !.all_red_time_s = c.all_red_clearance_s]
    IN  IF ~phase.is_left_turn
        THEN [clamped EXCEPT !.walk_time_s = RMax(c.min_walk_s, phase.walk_time_s),
                             !.ped_clearance_time_s = ped_clearance_s(c)]
        ELSE clamped

\* Variant: the green is capped at the maximum of its kind but not raised to
\* the minimum.
enforce_no_min(c, phase) ==
    LET max_g == IF phase.is_left_turn THEN c.max_protected_left_green_s ELSE c.max_green_s
        clamped == [phase EXCEPT !.green_time_s = RMin(max_g, phase.green_time_s),
                                 !.yellow_time_s = c.yellow_clearance_s,
                                 !.all_red_time_s = c.all_red_clearance_s]
    IN  IF ~phase.is_left_turn
        THEN LET walk == RMax(c.min_walk_s, phase.walk_time_s)
                 min_ped_green == RAdd(walk, ped_clearance_s(c))
             IN  [clamped EXCEPT !.walk_time_s = walk,
                                 !.ped_clearance_time_s = ped_clearance_s(c),
                                 !.green_time_s = IF RLt(clamped.green_time_s, min_ped_green)
                                                  THEN min_ped_green ELSE @]
        ELSE clamped

\* Variant: the pedestrian minimum is taken from the clearance the phase
\* carried before the call.
enforce_stale_ped(c, phase) ==
    LET min_g == IF phase.is_left_turn THEN c.min_protected_left_green_s ELSE c.min_green_s
        max_g == IF phase.is_left_turn THEN c.max_protected_left_green_s ELSE c.max_green_s
        clamped == [phase EXCEPT !.green_time_s = RMax(min_g, RMin(max_g, phase.green_time_s)),
                                 !.yellow_time_s = c.yellow_clearance_s,
                                 !.all_red_time_s = c.all_red_clearance_s]
    IN  IF ~phase.is_left_turn
        THEN LET walk == RMax(c.min_walk_s, phase.walk_time_s)
                 min_ped_green == RAdd(walk, phase.ped_clearance_time_s)
             IN  [clamped EXCEPT !.walk_time_s = walk,
                                 !.ped_clearance_time_s = ped_clearance_s(c),
                                 !.green_time_s = IF RLt(clamped.green_time_s, min_ped_green)
                                                  THEN min_ped_green ELSE @]
        ELSE clamped

\* Variant: the yellow a phase carries is kept when it is longer.
enforce_keep_yellow(c, phase) ==
    LET min_g == IF phase.is_left_turn THEN c.min_protected_left_green_s ELSE c.min_green_s
        max_g == IF phase.is_left_turn THEN c.max_protected_left_green_s ELSE c.max_green_s
        clamped == [phase EXCEPT !.green_time_s = RMax(min_g, RMin(max_g, phase.green_time_s)),
                                 !.yellow_time_s = RMax(c.yellow_clearance_s, phase.yellow_time_s),
                                 !.all_red_time_s = c.all_red_clearance_s]
    IN  IF ~phase.is_left_turn
        THEN LET walk == RMax(c.min_walk_s, phase.walk_time_s)
                 min_ped_green == RAdd(walk, ped_clearance_s(c))
             IN  [clamped EXCEPT !.walk_time_s = walk,
                                 !.ped_clearance_time_s = ped_clearance_s(c),
                                 !.green_time_s = IF RLt(clamped.green_time_s, min_ped_green)
                                                  THEN min_ped_green ELSE @]
        ELSE clamped

enforce(c, phase) ==
    LET min_g == IF phase.is_left_turn THEN c.min_protected_left_green_s ELSE c.min_green_s
        max_g == IF phase.is_left_turn THEN c.max_protected_left_green_s ELSE c.max_green_s
        clamped == [phase EXCEPT !.green_time_s = RMax(min_g, RMin(max_g, phase.green_time_s)),
                                 !.yellow_time_s = c.yellow_clearance_s,
                                 !.all_red_time_s = c.all_red_clearance_s]
    IN  IF ~phase.is_left_turn
        THEN LET walk == RMax(c.min_walk_s, phase.walk_time_s)
                 min_ped_green == RAdd(walk, ped_clearance_s(c))
             IN  [clamped EXCEPT !.walk_time_s = walk,
                                 !.ped_clearance_time_s = ped_clearance_s(c),
                                 !.green_time_s = IF RLt(clamped.green_time_s, min_ped_green)
                                                  THEN min_ped_green ELSE @]
        ELSE clamped

fixed_time(phases) ==
    RSum([i \in 1..Len(phases) |-> RAdd(phases[i].yellow_time_s, phases[i].all_red_time_s)])

\* The loop shared by _extend_to_minimum and _reduce_to_maximum: every green
\* is multiplied by target_green / green_time and the phase enforced again.
scale_greens(c, phases, current_total, cycle_s) ==
    LET green_time == RSub(current_total, fixed_time(phases))
        target_green == RSub(cycle_s, fixed_time(phases))
    IN  IF RLe(green_time, FromInt(0)) THEN phases
        ELSE LET ratio == RDiv(target_green, green_time)
             IN  [i \in 1..Len(phases) |->
                     enforce(c, [phases[i] EXCEPT !.green_time_s = RMul(@, ratio)])]

extend_to_minimum(c, phases, current_total) ==
    scale_greens(c, phases, current_total, c.min_cycle_s)

reduce_to_maximum(c, phases, current_total) ==
    scale_greens(c, phases, current_total, c.max_cycle_s)

cycle_total(phases) == RSum([i \in 1..Len(phases) |-> total_phase_time_s(phases[i])])

\* Variant: the greens are never scaled.
enforce_cycle_no_scaling(c, phases) ==
    [i \in 1..Len(phases) |-> enforce(c, phases[i])]

\* Variant: a total that is not below min_cycle_s is always scaled to
\* max_cycle_s, also when it lies within the cycle bounds.
enforce_cycle_fill(c, phases) ==
    LET enforced == [i \in 1..Len(phases) |-> enforce(c, phases[i])]
        total == cycle_total(enforced)
    IN  IF RLt(total, c.min_cycle_s) THEN extend_to_minimum(c, enforced, total)
        ELSE reduce_to_maximum(c, enforced, total)

enforce_cycle(c, phases) ==
    LET enforced == [i \in 1..Len(phases) |-> enforce(c, phases[i])]
        total == cycle_total(enforced)
    IN  IF RLt(total, c.min_cycle_s) THEN extend_to_minimum(c, enforced, total)
        ELSE IF RLt(c.max_cycle_s, total) THEN reduce_to_maximum(c, enforced, total)
        ELSE enforced

\* ------------------------------------------------------------------------
\* models/intersection.py : a Lane is [queue_count, saturation_flow]; an
\* Intersection maps every Direction to [through_lane, left_turn_lane].
\* ------------------------------------------------------------------------
saturation_flow_per_sec(lane) == RDiv(FromInt(lane.saturation_flow), FromInt(3600))

green_time_to_clear(lane, startup_lost_time_s) ==
    IF lane.queue_count <= 0 THEN FromInt(0)
    ELSE RAdd(RDiv(FromInt(lane.queue_count), saturation_flow_per_sec(lane)),
              startup_lost_time_s)

\* Intersection.create_standard(), its lanes then updated to the queue counts
\* through[d] and left[d]
create_standard(through, left) ==
    [d \in Direction |->
        [through_lane |-> [queue_count |-> through[d], saturation_flow |-> ThroughLaneFlow],
         left_turn_lane |-> [queue_count |-> left[d], saturation_flow |-> LeftTurnLaneFlow]]]

\* ------------------------------------------------------------------------
\* timing/adaptive.py : AdaptiveTimingEngine with constraints c, intersection
\* and _prev_ds (a function from phase ids to the smoothed DS stored so far)
\* ------------------------------------------------------------------------
smoothing_alpha == <<3, 5>>

\* served_directions[0]
first_served(phase) == IF "N" \in phase.served_directions THEN "N" ELSE "E"

relevant_lane(intersection, phase, d) ==
    IF phase.is_left_turn THEN intersection[d].left_turn_lane
    ELSE intersection[d].through_lane

RECURSIVE sum_queues(_, _, _)
sum_queues(intersection, phase, dirs) ==
    IF dirs = {} THEN 0
    ELSE LET d == CHOOSE x \in dirs : TRUE
         IN  relevant_lane(intersection, phase, d).queue_count
                 + sum_queues(intersection, phase, dirs \ {d})

\* Variant: the ideal green is the shortest clearing time of the served lanes.
RECURSIVE min_ideal_green(_, _, _, _)
min_ideal_green(c, intersection, phase, dirs) ==
    LET d == CHOOSE x \in dirs : TRUE
        here == green_time_to_clear(relevant_lane(intersection, phase, d),
                                    c.startup_lost_time_s)
    IN  IF dirs \ {d} = {} THEN here
        ELSE RMin(min_ideal_green(c, intersection, phase, dirs \ {d}), here)

RECURSIVE max_ideal_green(_, _, _, _)
max_ideal_green(c, intersection, phase, dirs) ==
    IF dirs = {} THEN FromInt(0)
    ELSE LET d == CHOOSE x \in dirs : TRUE
         IN  RMax(max_ideal_green(c, intersection, phase, dirs \ {d}),
                  green_time_to_clear(relevant_lane(intersection, phase, d),
                                      c.startup_lost_time_s))

\* Variant: the demand of a phase carries the shortest clearing time of its lanes.
phase_demand_min_ideal(c, intersection, prev_ds, phase) ==
    LET total_queue == sum_queues(intersection, phase, phase.served_directions)
        left_turn_total == IF phase.is_left_turn THEN total_queue ELSE 0
        capacity == RMul(phase.green_time_s,
                         saturation_flow_per_sec(
                             relevant_lane(intersection, phase, first_served(phase))))
        ds == RDiv(FromInt(total_queue), RMax(FromInt(1), capacity))
        previous == IF phase.phase_id \in DOMAIN prev_ds THEN prev_ds[phase.phase_id] ELSE ds
        smoothed_ds == RAdd(RMul(smoothing_alpha, ds),
                            RMul(RSub(FromInt(1), smoothing_alpha), previous))
    IN  [phase_id |-> phase.phase_id,
         total_queue |-> total_queue,
         ideal_green_s |-> min_ideal_green(c, intersection, phase, phase.served_directions),
         degree_of_saturation |-> smoothed_ds,
         needs_protected_left |-> phase.is_left_turn
                                      /\ left_turn_total >= c.left_turn_queue_threshold]

\* One PhaseDemand of _compute_demands, with the smoothed DS it stores
phase_demand(c, intersection, prev_ds, phase) ==
    LET total_queue == sum_queues(intersection, phase, phase.served_directions)
        left_turn_total == IF phase.is_left_turn THEN total_queue ELSE 0
        capacity == RMul(phase.green_time_s,
                         saturation_flow_per_sec(
                             relevant_lane(intersection, phase, first_served(phase))))
        ds == RDiv(FromInt(total_queue), RMax(FromInt(1), capacity))
        previous == IF phase.phase_id \in DOMAIN prev_ds THEN prev_ds[phase.phase_id] ELSE ds
        smoothed_ds == RAdd(RMul(smoothing_alpha, ds),
                            RMul(RSub(FromInt(1), smoothing_alpha), previous))
    IN  [phase_id |-> phase.phase_id,
         total_queue |-> total_queue,
         ideal_green_s |-> max_ideal_green(c, intersection, phase, phase.served_directions),
         degree_of_saturation |-> smoothed_ds,
         needs_protected_left |-> phase.is_left_turn
                                      /\ left_turn_total >= c.left_turn_queue_threshold]

compute_demands(c, intersection, prev_ds, ring) ==
    [i \in 1..Len(ring) |-> phase_demand(c, intersection, prev_ds, ring[i])]

compute_cycle_length(c, demands) ==
    LET total_lost == RMul(FromInt(Len(demands)),
                           RAdd(c.yellow_clearance_s, c.all_red_clearance_s))
        avg_ds == RDiv(RSum([i \in 1..Len(demands) |-> demands[i].degree_of_saturation]),
                       FromInt(Max(1, Len(demands))))
        y == RMin(<<9, 10>>, avg_ds)
        cycle == IF RLt(y, <<1, 20>>) THEN c.min_cycle_s
                 ELSE RDiv(RAdd(RMul(<<3, 2>>, total_lost), FromInt(5)), RSub(FromInt(1), y))
    IN  RMax(c.min_cycle_s, RMin(c.max_cycle_s, cycle))

allocate_green_splits(c, demands, cycle_length, ring) ==
    LET total_fixed == fixed_time(ring)
        available_green == RMax(FromInt(0), RSub(cycle_length, total_fixed))
        phase_of(demand) == CHOOSE i \in 1..Len(ring) :
                                /\ ring[i].phase_id = demand.phase_id
                                /\ \A k \in 1..Len(ring) :
                                      ring[k].phase_id = demand.phase_id => i <= k
        weight(demand) ==
            IF ring[phase_of(demand)].is_left_turn /\ ~demand.needs_protected_left
            THEN RMul(c.min_protected_left_green_s, <<1, 2>>)
            ELSE IF demand.total_queue = 0 THEN c.min_green_s
            ELSE RMax(c.min_green_s, demand.ideal_green_s)
        weights == [i \in 1..Len(demands) |-> weight(demands[i])]
        total_weight == IF RLe(RSum(weights), FromInt(0)) THEN FromInt(1) ELSE RSum(weights)
        index_of(pid) == CHOOSE i \in 1..Len(demands) :
                             /\ demands[i].phase_id = pid
                             /\ \A k \in 1..Len(demands) : demands[k].phase_id = pid => k <= i
    IN  [pid \in {demands[i].phase_id : i \in 1..Len(demands)} |->
            RMul(RDiv(weights[index_of(pid)], total_weight), available_green)]

\* compute_cycle_plan, returning the plan together with the _prev_ds the
\* engine is left with.  The demands are computed once and bound, as the
\* local variable of the code is.
compute_cycle_plan(c, intersection, prev_ds, ring) ==
    LET plan_of(demands) ==
            LET cycle_length == compute_cycle_length(c, demands)
            IN  [cycle_length_s |-> cycle_length,
                 phase_demands |-> demands,
                 phase_greens |-> allocate_green_splits(c, demands, cycle_length, ring),
                 prev_ds |-> [pid \in {ring[i].phase_id : i \in 1..Len(ring)} |->
                                 LET i == CHOOSE k \in 1..Len(ring) :
                                              /\ ring[k].phase_id = pid
                                              /\ \A m \in 1..Len(ring) :
                                                    ring[m].phase_id = pid => m <= k
                                 IN  demands[i].degree_of_saturation]]
    IN  CHOOSE plan \in {plan_of(demands) :
                             demands \in {compute_demands(c, intersection, prev_ds, ring)}} : TRUE

\* get_diagnostics calls _compute_demands, which stores the smoothed DS of
\* every phase in _prev_ds; returns the _prev_ds the engine is left with.
get_diagnostics(c, intersection, prev_ds, ring) ==
    CHOOSE stored \in
        {[pid \in {ring[i].phase_id : i \in 1..Len(ring)} |->
             LET i == CHOOSE k \in 1..Len(ring) :
                          /\ ring[k].phase_id = pid
                          /\ \A m \in 1..Len(ring) : ring[m].phase_id = pid => m <= k
             IN  demands[i].degree_of_saturation] :
         demands \in {compute_demands(c, intersection, prev_ds, ring)}} : TRUE

\* timing/adaptive.py : AdaptiveTimingEngine.apply_plan, the engine's
\* constraints being c
apply_plan(c, plan, ring) ==
    LET matching(phase) == {j \in 1..Len(plan.phase_demands) :
                               plan.phase_demands[j].phase_id = phase.phase_id}
        first_match(phase) == CHOOSE j \in matching(phase) : \A k \in matching(phase) : j <= k
    IN  enforce_cycle(c,
            [i \in 1..Len(ring) |->
                [ring[i] EXCEPT
                    !.green_time_s = IF ring[i].phase_id \in DOMAIN plan.phase_greens
                                     THEN plan.phase_greens[ring[i].phase_id] ELSE @,
                    !.use_protected_left =
                        IF matching(ring[i]) # {}
                        THEN plan.phase_demands[first_match(ring[i])].needs_protected_left
                        ELSE @]])

\* ------------------------------------------------------------------------
\* models/signal.py : SignalController.  A controller s is a record
\*   [phase_ring, current_phase_idx, current_step, step_elapsed, cycle_count,
\*    is_preempted, preemption_direction, signal_heads]
\* extended by what the callback registered on on_cycle_complete has seen and
\* left behind: cycle_complete_calls, the arguments of its calls in order, and
\* last_cycle_count (TrafficController.last_cycle_count).
\* ------------------------------------------------------------------------
default_all_red(heads) == [d \in DOMAIN heads |-> SignalHead]

\* Variant: the pedestrian head keeps WALK through the YELLOW step.
served_head_walk_in_yellow(phase, step) ==
    IF step = "GREEN" THEN
        IF phase.is_left_turn THEN
            IF phase.use_protected_left
            THEN [SignalHead EXCEPT !.left_turn_signal = "GREEN_ARROW"]
            ELSE [SignalHead EXCEPT !.left_turn_signal = "FLASHING_YELLOW"]
        ELSE [vehicle_signal |-> "GREEN", left_turn_signal |-> "FLASHING_YELLOW",
              pedestrian_signal |-> "WALK"]
    ELSE IF step = "FLASHING_YELLOW" THEN
        [SignalHead EXCEPT !.left_turn_signal = "FLASHING_YELLOW"]
    ELSE IF step = "YELLOW" THEN
        IF phase.is_left_turn
        THEN [SignalHead EXCEPT !.left_turn_signal = "YELLOW_ARROW"]
        ELSE [vehicle_signal |-> "YELLOW", left_turn_signal |-> "RED",
              pedestrian_signal |-> "WALK"]
    ELSE SignalHead

served_head(phase, step) ==
    IF step = "GREEN" THEN
        IF phase.is_left_turn THEN
            IF phase.use_protected_left
            THEN [SignalHead EXCEPT !.left_turn_signal = "GREEN_ARROW"]
            ELSE [SignalHead EXCEPT !.left_turn_signal = "FLASHING_YELLOW"]
        ELSE [vehicle_signal |-> "GREEN", left_turn_signal |-> "FLASHING_YELLOW",
              pedestrian_signal |-> "WALK"]
    ELSE IF step = "FLASHING_YELLOW" THEN
        [SignalHead EXCEPT !.left_turn_signal = "FLASHING_YELLOW"]
    ELSE IF step = "YELLOW" THEN
        IF phase.is_left_turn
        THEN [SignalHead EXCEPT !.left_turn_signal = "YELLOW_ARROW"]
        ELSE [vehicle_signal |-> "YELLOW", left_turn_signal |-> "RED",
              pedestrian_signal |-> "PED_CLEARANCE"]
    ELSE SignalHead

apply_signals_for_current_state(s) ==
    LET phase == current_phase(s)
        red == default_all_red(s.signal_heads)
    IN  [s EXCEPT !.signal_heads =
            IF s.current_step = "ALL_RED" THEN red
            ELSE [d \in DOMAIN red |->
                    IF d \in phase.served_directions
                    THEN served_head(phase, s.current_step)
                    ELSE red[d]]]

\* Variant: a GREEN step is given two tick intervals less than the phase's green.
current_step_duration_short(s) ==
    LET phase == current_phase(s)
    IN  IF s.is_preempted /\ s.current_step = "GREEN" THEN FromInt(Inf)
        ELSE IF s.current_step = "GREEN"
             THEN RSub(phase.green_time_s, FromInt(2 * TickInterval))
        ELSE IF s.current_step = "FLASHING_YELLOW" THEN phase.green_time_s
        ELSE IF s.current_step = "YELLOW" THEN phase.yellow_time_s
        ELSE IF s.current_step = "ALL_RED" THEN phase.all_red_time_s
        ELSE FromInt(0)

\* Variant: a preemption hold lasts as long as the phase's green.
current_step_duration_finite_hold(s) ==
    LET phase == current_phase(s)
    IN  IF s.current_step = "GREEN" THEN phase.green_time_s
        ELSE IF s.current_step = "FLASHING_YELLOW" THEN phase.green_time_s
        ELSE IF s.current_step = "YELLOW" THEN phase.yellow_time_s
        ELSE IF s.current_step = "ALL_RED" THEN phase.all_red_time_s
        ELSE FromInt(0)

current_step_duration(s) ==
    LET phase == current_phase(s)
    IN  IF s.is_preempted /\ s.current_step = "GREEN" THEN FromInt(Inf)
        ELSE IF s.current_step = "GREEN" THEN phase.green_time_s
        ELSE IF s.current_step = "FLASHING_YELLOW" THEN phase.green_time_s
        ELSE IF s.current_step = "YELLOW" THEN phase.yellow_time_s
        ELSE IF s.current_step = "ALL_RED" THEN phase.all_red_time_s
        ELSE FromInt(0)

\* Variant: the hold gives green to the directions the current phase serves.
enter_preemption_phase_served(s) ==
    LET red == default_all_red(s.signal_heads)
        heads == [d \in DOMAIN red |->
                    IF d \in current_phase(s).served_directions
                    THEN [red[d] EXCEPT !.vehicle_signal = "GREEN"]
                    ELSE red[d]]
    IN  [s EXCEPT !.signal_heads = heads, !.current_step = "GREEN", !.step_elapsed = 0]

enter_preemption_phase(s) ==
    LET red == default_all_red(s.signal_heads)
        heads == IF s.preemption_direction # None
                 THEN [red EXCEPT ![s.preemption_direction].vehicle_signal = "GREEN"]
                 ELSE red
    IN  [s EXCEPT !.signal_heads = heads, !.current_step = "GREEN", !.step_elapsed = 0]

\* TrafficController._on_cycle_complete, the callback registered on
\* on_cycle_complete: the plan is recomputed and applied unless a preemption
\* is active in the manager.
\* Variant: the plan is applied whether or not a preemption is active.
on_cycle_complete_always(s, pm_active, plan) ==
    [s EXCEPT !.cycle_complete_calls = Append(@, s.cycle_count),
              !.phase_ring = apply_plan(Timing, plan, s.phase_ring),
              !.last_cycle_count = s.cycle_count]

on_cycle_complete(s, pm_active, plan) ==
    LET called == [s EXCEPT !.cycle_complete_calls = Append(@, s.cycle_count)]
    IN  IF pm_active THEN called
        ELSE [called EXCEPT !.phase_ring = apply_plan(Timing, plan, s.phase_ring),
                            !.last_cycle_count = s.cycle_count]

\* Variant: the phase that has just ended is started again.
advance_to_next_phase_repeat(s, pm_active, plan) ==
    apply_signals_for_current_state([s EXCEPT !.current_step = "GREEN", !.step_elapsed = 0])

advance_to_next_phase(s, pm_active, plan) ==
    LET prev_idx == s.current_phase_idx
        moved == apply_signals_for_current_state(
                    [s EXCEPT !.current_phase_idx = next_phase_index(s.phase_ring, prev_idx),
                              !.current_step = "GREEN",
                              !.step_elapsed = 0])
    IN  IF moved.current_phase_idx = 0 /\ prev_idx # 0
        THEN on_cycle_complete([moved EXCEPT !.cycle_count = @ + 1], pm_active, plan)
        ELSE moved

\* Variant: an expired YELLOW goes straight to the next phase.
advance_step_no_all_red(s, pm_active, plan) ==
    IF s.current_step = "ALL_RED" THEN
        IF s.is_preempted /\ s.preemption_direction # None
        THEN enter_preemption_phase(s)
        ELSE advance_to_next_phase(s, pm_active, plan)
    ELSE IF s.current_step = "YELLOW" THEN advance_to_next_phase(s, pm_active, plan)
    ELSE apply_signals_for_current_state(
            [s EXCEPT !.current_step = "YELLOW", !.step_elapsed = 0])

\* Variant: an expired ALL_RED always leads to the next phase of the ring.
advance_step_ignore_preemption(s, pm_active, plan) ==
    IF s.current_step = "ALL_RED" THEN advance_to_next_phase(s, pm_active, plan)
    ELSE
        LET nxt == IF s.current_step = "GREEN" THEN "YELLOW"
                   ELSE IF s.current_step = "FLASHING_YELLOW" THEN "YELLOW"
                   ELSE "ALL_RED"
        IN  apply_signals_for_current_state(
                [s EXCEPT !.current_step = nxt, !.step_elapsed = 0])

advance_step(s, pm_active, plan) ==
    IF s.current_step = "ALL_RED" THEN
        IF s.is_preempted /\ s.preemption_direction # None
        THEN enter_preemption_phase(s)
        ELSE advance_to_next_phase(s, pm_active, plan)
    ELSE
        LET nxt == IF s.current_step = "GREEN" THEN "YELLOW"
                   ELSE IF s.current_step = "FLASHING_YELLOW" THEN "YELLOW"
                   ELSE "ALL_RED"
        IN  apply_signals_for_current_state(
                [s EXCEPT !.current_step = nxt, !.step_elapsed = 0])

\* Variant: fault mode also parks the state machine in ALL_RED.
enter_fault_mode_parks(s) ==
    [s EXCEPT !.current_step = "ALL_RED", !.step_elapsed = 0,
              !.signal_heads =
        [d \in DOMAIN s.signal_heads |->
            [vehicle_signal |-> "ALL_RED", left_turn_signal |-> "ALL_RED",
             pedestrian_signal |-> "DONT_WALK"]]]

enter_fault_mode(s) ==
    [s EXCEPT !.signal_heads =
        [d \in DOMAIN s.signal_heads |->
            [vehicle_signal |-> "ALL_RED", left_turn_signal |-> "ALL_RED",
             pedestrian_signal |-> "DONT_WALK"]]]

SC_conflicts == {<<"N", "E">>, <<"N", "W">>, <<"S", "E">>, <<"S", "W">>}

SC_green_directions(heads) ==
    {d \in DOMAIN heads : heads[d].vehicle_signal \in {"GREEN", "YELLOW"}}
        \cup {d \in DOMAIN heads : heads[d].left_turn_signal \in {"GREEN_ARROW"}}

SC_conflict_found(heads) ==
    \E pair \in SC_conflicts :
        pair[1] \in SC_green_directions(heads) /\ pair[2] \in SC_green_directions(heads)

check_conflicts(s) ==
    IF SC_conflict_found(s.signal_heads) THEN enter_fault_mode(s) ELSE s

SignalController_tick(s, pm_active, plan) ==
    LET elapsed == FromInt(s.step_elapsed)
        duration == current_step_duration(s)
        advanced == IF RLe(duration, elapsed) THEN advance_step(s, pm_active, plan) ELSE s
    IN  check_conflicts(advanced)

\* Variant: the requested direction is given green at once.
request_preemption_immediate(s, direction) ==
    IF s.is_preempted THEN s
    ELSE [s EXCEPT !.is_preempted = TRUE, !.preemption_direction = direction,
                   !.signal_heads[direction].vehicle_signal = "GREEN"]

\* Variant: the step timer keeps running when the step is forced to YELLOW.
request_preemption_keep_timer(s, direction) ==
    IF s.is_preempted THEN s
    ELSE LET flagged == [s EXCEPT !.is_preempted = TRUE, !.preemption_direction = direction]
         IN  IF s.current_step = "GREEN" \/ s.current_step = "FLASHING_YELLOW"
             THEN apply_signals_for_current_state([flagged EXCEPT !.current_step = "YELLOW"])
             ELSE flagged

request_preemption(s, direction) ==
    IF s.is_preempted THEN s
    ELSE LET flagged == [s EXCEPT !.is_preempted = TRUE, !.preemption_direction = direction]
         IN  IF s.current_step = "GREEN" \/ s.current_step = "FLASHING_YELLOW"
             THEN apply_signals_for_current_state(
                     [flagged EXCEPT !.current_step = "YELLOW", !.step_elapsed = 0])
             ELSE flagged

clear_preemption(s) ==
    [s EXCEPT !.is_preempted = FALSE, !.preemption_direction = None]

SignalController_init ==
    apply_signals_for_current_state(
        [phase_ring |-> create_standard_4way(Timing),
         current_phase_idx |-> 0,
         current_step |-> "GREEN",
         step_elapsed |-> 0,
         cycle_count |-> 0,
         is_preempted |-> FALSE,
         preemption_direction |-> None,
         signal_heads |-> [d \in Direction |-> SignalHead],
         cycle_complete_calls |-> << >>,
         last_cycle_count |-> 0])

\* ------------------------------------------------------------------------
\* safety/conflict.py : ConflictMonitor.  A monitor m is a record
\*   [fault_active, conflict_count, consecutive_clean]
\* check() returns [cm, sc, healthy]: the monitor and the controller after the
\* call and the value returned.
\* ------------------------------------------------------------------------
CONFLICTING_PAIRS == {<<"N", "E">>, <<"N", "W">>, <<"S", "E">>, <<"S", "W">>}

\* Variant: a YELLOW vehicle head is not counted.
CM_green_directions_no_yellow(heads) ==
    {d \in DOMAIN heads : heads[d].vehicle_signal \in {"GREEN"}}
        \cup {d \in DOMAIN heads : heads[d].left_turn_signal = "GREEN_ARROW"}

CM_green_directions(heads) ==
    {d \in DOMAIN heads : heads[d].vehicle_signal \in {"GREEN", "YELLOW"}}
        \cup {d \in DOMAIN heads : heads[d].left_turn_signal = "GREEN_ARROW"}

CM_conflict_found(heads) ==
    \E pair \in CONFLICTING_PAIRS :
        pair[1] \in CM_green_directions(heads) /\ pair[2] \in CM_green_directions(heads)

on_conflict_detected(m, s) ==
    LET counted == [m EXCEPT !.conflict_count = @ + 1, !.consecutive_clean = 0]
    IN  IF ~m.fault_active
        THEN [cm |-> [counted EXCEPT !.fault_active = TRUE], sc |-> enter_fault_mode(s),
              healthy |-> FALSE]
        ELSE [cm |-> counted, sc |-> s, healthy |-> FALSE]

\* Variant: the latch is released one clean check late.
clean_check_late(m) ==
    IF m.fault_active THEN
        IF m.consecutive_clean + 1 > CleanChecksToClear
        THEN [m EXCEPT !.fault_active = FALSE, !.consecutive_clean = 0]
        ELSE [m EXCEPT !.consecutive_clean = @ + 1]
    ELSE m

clean_check(m) ==
    IF m.fault_active THEN
        IF m.consecutive_clean + 1 >= CleanChecksToClear
        THEN [m EXCEPT !.fault_active = FALSE, !.consecutive_clean = 0]
        ELSE [m EXCEPT !.consecutive_clean = @ + 1]
    ELSE m

ConflictMonitor_check(m, s) ==
    IF CM_conflict_found(s.signal_heads)
    THEN on_conflict_detected(m, s)
    ELSE [cm |-> clean_check(m), sc |-> s, healthy |-> TRUE]

ConflictMonitor_init ==
    [fault_active |-> FALSE, conflict_count |-> 0, consecutive_clean |-> 0]

\* ------------------------------------------------------------------------
\* safety/preemption.py : PreemptionManager.  A manager p is a record
\*   [pending, active_event, history, hold_elapsed]
\* An event is [id, direction, activated, cleared, min_hold_s]; hold_elapsed is the age
\* of the active event (hold_elapsed_s).  Operators return [pm, sc].
\* ------------------------------------------------------------------------
PreemptionEvent(id, direction) ==
    [id |-> id, direction |-> direction, activated |-> FALSE, cleared |-> FALSE,
     min_hold_s |-> MinHold]

\* active_event is None
NoEvent == [id |-> 0, direction |-> None, activated |-> FALSE, cleared |-> FALSE,
            min_hold_s |-> 0]

is_active(p) == p.active_event # NoEvent

\* Variant: the state machine is not told of the activation.
activate_silent(p, s, event) ==
    [pm |-> [p EXCEPT !.active_event = [event EXCEPT !.activated = TRUE],
                      !.hold_elapsed = 0],
     sc |-> s]

activate(p, s, event) ==
    [pm |-> [p EXCEPT !.active_event = [event EXCEPT !.activated = TRUE],
                      !.hold_elapsed = 0],
     sc |-> request_preemption(s, event.direction)]

\* Variant: a request made while an event is active is dropped.
PreemptionManager_request_drop(p, s, event) ==
    IF is_active(p)
    THEN [pm |-> p, sc |-> s]
    ELSE activate(p, s, event)

\* Variant: a request made while an event is active takes over at once and
\* sends the active event back to the head of the queue.
PreemptionManager_request_swap(p, s, event) ==
    IF is_active(p)
    THEN [pm |-> [p EXCEPT !.pending = <<p.active_event>> \o @,
                           !.active_event = [event EXCEPT !.activated = TRUE],
                           !.hold_elapsed = 0],
          sc |-> s]
    ELSE activate(p, s, event)

PreemptionManager_request(p, s, event) ==
    IF is_active(p)
    THEN [pm |-> [p EXCEPT !.pending = Append(@, event)], sc |-> s]
    ELSE activate(p, s, event)

\* Variant: clear() does not tell the state machine to clear its preemption.
PreemptionManager_clear_keep_sc(p, s) ==
    IF ~is_active(p) THEN [pm |-> p, sc |-> s]
    ELSE LET archived == [p EXCEPT !.history = Append(@, [p.active_event EXCEPT !.cleared = TRUE]),
                                   !.active_event = NoEvent,
                                   !.hold_elapsed = 0]
         IN  IF archived.pending # << >>
             THEN activate([archived EXCEPT !.pending = Tail(@)], s, Head(archived.pending))
             ELSE [pm |-> archived, sc |-> s]

\* Variant: clear() does not keep the cleared event.
PreemptionManager_clear_forget(p, s) ==
    IF ~is_active(p) THEN [pm |-> p, sc |-> s]
    ELSE LET archived == [p EXCEPT !.active_event = NoEvent, !.hold_elapsed = 0]
             released == clear_preemption(s)
         IN  IF archived.pending # << >>
             THEN activate([archived EXCEPT !.pending = Tail(@)], released, Head(archived.pending))
             ELSE [pm |-> archived, sc |-> released]

PreemptionManager_clear(p, s) ==
    IF ~is_active(p) THEN [pm |-> p, sc |-> s]
    ELSE LET archived == [p EXCEPT !.history = Append(@, [p.active_event EXCEPT !.cleared = TRUE]),
                                   !.active_event = NoEvent,
                                   !.hold_elapsed = 0]
             released == clear_preemption(s)
         IN  IF archived.pending # << >>
             THEN activate([archived EXCEPT !.pending = Tail(@)], released, Head(archived.pending))
             ELSE [pm |-> archived, sc |-> released]

\* Variant: the hold is cleared only once it has lasted longer than max_hold_s.
PreemptionManager_tick_strict(p, s) ==
    IF ~is_active(p) THEN
        IF p.pending # << >>
        THEN activate([p EXCEPT !.pending = Tail(@)], s, Head(p.pending))
        ELSE [pm |-> p, sc |-> s]
    ELSE IF p.hold_elapsed > MaxHold THEN PreemptionManager_clear(p, s)
    ELSE [pm |-> p, sc |-> s]

\* Variant: an active event is never timed out.
PreemptionManager_tick_no_timeout(p, s) ==
    IF ~is_active(p) THEN
        IF p.pending # << >>
        THEN activate([p EXCEPT !.pending = Tail(@)], s, Head(p.pending))
        ELSE [pm |-> p, sc |-> s]
    ELSE [pm |-> p, sc |-> s]

PreemptionManager_tick(p, s) ==
    IF ~is_active(p) THEN
        IF p.pending # << >>
        THEN activate([p EXCEPT !.pending = Tail(@)], s, Head(p.pending))
        ELSE [pm |-> p, sc |-> s]
    ELSE IF p.hold_elapsed >= MaxHold THEN PreemptionManager_clear(p, s)
    ELSE [pm |-> p, sc |-> s]

PreemptionManager_init ==
    [pending |-> << >>, active_event |-> NoEvent, history |-> << >>, hold_elapsed |-> 0]

\* ------------------------------------------------------------------------
\* controller.py : TrafficController.tick, steps 2-3 (state machine, conflict
\* monitor, preemption manager).  Returns [sc, cm, pm].
\* ------------------------------------------------------------------------
TrafficController_tick(s, m, p, plan) ==
    LET ticked == SignalController_tick(s, is_active(p), plan)
        checked == ConflictMonitor_check(m, ticked)
        managed == PreemptionManager_tick(p, checked.sc)
    IN  [sc |-> managed.sc, cm |-> checked.cm, pm |-> managed.pm]

\* ------------------------------------------------------------------------
\* controller.py : TrafficController, its own fields and its run loop.
\*
\* tc is [is_running, tick_count, vision_age, queue, pc, obs_idx, due,
\*        limited, max_ticks] plus what an observer of the loop records:
\*   vision_age  now - last_vision_time, saturating at VisionInterval
\*   queue       the lane queue count the last successful detect() stored
\*   pc          where control stands: "idle" before run(), "loop" at the
\*               while test, "vision" .. "observers" inside tick(),
\*               "returned" once run() has returned, "raised" once an
\*               exception has left run()
\*   obs_idx     callbacks of on_tick already invoked in this tick
\*   due         now >= next_tick
\*   limited     max_ticks is not None
\*   trace       sub-steps executed so far in the tick in progress (or in the
\*               most recent tick)
\*   was_due     whether the vision interval had elapsed when that tick began
\*   sm_heads    heads as left by the state-machine step, stamped with the tick
\*   cm_heads    heads as read by the conflict monitor, stamped with the tick
\*   settled     [sc, cm, pm] as left by the preemption-manager step
\*   seen        [sc, cm, pm] as read by the latest callback
\*   start_count tick_count when run() was entered
\*   runs        calls of run() so far
\*   stopped     a callback has set is_running to False during this run()
\*   failure     what raised: "none", "detect" or "observer"
\* ------------------------------------------------------------------------
NumObservers == 2

\* 1.0 / target_fps, in units of the tick interval (rounded up to whole ticks)
VisionInterval == 2

MaxQueue == 1
MaxTicks == 2
MaxTickCount == 3
MaxRuns == 2

NoSnapshot == [tick |-> 0]

Snapshot(tick, s, m, p) ==
    [tick |-> tick, step |-> s.current_step, heads |-> s.signal_heads,
     is_preempted |-> s.is_preempted, fault_active |-> m.fault_active,
     active |-> is_active(p)]

TrafficController_init ==
    [is_running |-> FALSE, tick_count |-> 0, vision_age |-> VisionInterval,
     queue |-> 0, pc |-> "idle", obs_idx |-> 0, due |-> FALSE,
     limited |-> FALSE, max_ticks |-> 0,
     trace |-> << >>, was_due |-> FALSE,
     sm_heads |-> NoSnapshot, cm_heads |-> NoSnapshot,
     settled |-> NoSnapshot, seen |-> NoSnapshot,
     start_count |-> 0, runs |-> 0, stopped |-> FALSE, failure |-> "none"]

\* tick(): the statement that follows each sub-step
after_substep_monitor_first(step) ==
    CASE step = "vision" -> "monitor"
      [] step = "monitor" -> "state_machine"
      [] step = "state_machine" -> "preemption"
      [] step = "preemption" -> "observers"

after_substep(step) ==
    CASE step = "vision" -> "state_machine"
      [] step = "state_machine" -> "monitor"
      [] step = "monitor" -> "preemption"
      [] step = "preemption" -> "observers"

\* tick(): now - self.last_vision_time >= vision_interval
vision_due(t) == t.vision_age >= VisionInterval

\* run(): max_ticks is not None and self.tick_count >= max_ticks
max_ticks_reached_strict(t) == t.limited /\ t.tick_count > t.max_ticks

max_ticks_reached(t) == t.limited /\ t.tick_count >= t.max_ticks

\* run(): an exception leaves tick() and the while loop; only
\* KeyboardInterrupt is caught, and finally sets is_running to False.
raise_through_run(t, what) ==
    [t EXCEPT !.pc = "raised", !.is_running = FALSE, !.failure = what]

\* ------------------------------------------------------------------------
\* State
\* ------------------------------------------------------------------------
VARIABLES
    sc,            \* the SignalController
    cm,            \* the ConflictMonitor
    pm,            \* the PreemptionManager
    num_requests,  \* PreemptionEvents created so far (gives events their identity)
    prev_step,     \* current_step as read after the most recent tick (the observer's prev_step)
    last_req,      \* direction of the latest request_preemption call since the last clear_preemption
    clean_run,     \* clean check() calls since the most recent conflicting one, -1 before any conflict
    probe,         \* one head assignment handed to both conflict checks, with what each decided
    bench,         \* constraints and phases handed to the timing enforcer, with what it returned
    engine,        \* the AdaptiveTimingEngine on the bench: its intersection, _prev_ds and latest plan
    tc             \* the TrafficController: is_running, tick_count, last vision, and where run() and tick() stand

vars == <<sc, cm, pm, num_requests, prev_step, last_req, clean_run, probe, bench, engine, tc>>

\* bench is [c, input, phases, prev, last, calls]: the constraints, the phases
\* as first handed over, the phases now, the phases before the latest call,
\* the latest call and the number of calls made.
NoBench == [c |-> Timing, input |-> << >>, phases |-> << >>, prev |-> << >>,
            last |-> "none", calls |-> 0]

NoPlan == [cycle_length_s |-> FromInt(0), phase_demands |-> << >>,
           phase_greens |-> << >>, prev_ds |-> << >>]

\* engine is [intersection, prev_ds, plan] plus what an observer records:
\* reads, the calls of get_diagnostics so far, and unread_ds, the _prev_ds
\* the engine held before the first of them.
NoEngine == [intersection |-> create_standard([d \in Direction |-> 0], [d \in Direction |-> 0]),
             prev_ds |-> << >>, plan |-> NoPlan, reads |-> 0, unread_ds |-> << >>]

NoProbe == [heads |-> [d \in Direction |-> SignalHead], internal |-> "unset", monitor |-> "unset"]

Init ==
    /\ sc = SignalController_init
    /\ cm = ConflictMonitor_init
    /\ pm = PreemptionManager_init
    /\ num_requests = 0
    /\ tc = TrafficController_init
    /\ prev_step = SignalController_init.current_step
    /\ last_req = None
    /\ clean_run = -1
    /\ probe = NoProbe
    /\ bench = NoBench
    /\ engine = NoEngine

\* ------------------------------------------------------------------------
\* Actions
\* ------------------------------------------------------------------------
\* Directions used as inputs: one of each pair of opposite approaches (the
\* code treats N like S and E like W).
InputDirections == {"N", "E"}

\* One unit of time passes between calls.
AdvanceTime ==
    /\ sc' = [sc EXCEPT !.step_elapsed = Min(@ + 1, ElapsedCap)]
    /\ pm' = [pm EXCEPT !.hold_elapsed = IF is_active(pm) THEN Min(@ + 1, ElapsedCap) ELSE @]
    /\ UNCHANGED <<tc, cm, num_requests, prev_step, last_req, clean_run, probe, bench, engine>>

\* SignalController.tick(now)
SCTick ==
    \E plan \in PlansAt(sc) :
        LET ticked == SignalController_tick(sc, is_active(pm), plan)
        IN  /\ ticked.cycle_count <= MaxCycles
            /\ sc' = ticked
            /\ prev_step' = ticked.current_step
            /\ UNCHANGED <<tc, cm, pm, num_requests, last_req, clean_run, probe, bench, engine>>

\* SignalController.request_preemption(direction)
SCRequest ==
    \E d \in InputDirections :
        /\ sc' = request_preemption(sc, d)
        /\ last_req' = d
        /\ UNCHANGED <<tc, cm, pm, num_requests, prev_step, clean_run, probe, bench, engine>>

\* SignalController.clear_preemption()
SCClear ==
    /\ sc' = clear_preemption(sc)
    /\ last_req' = None
    /\ UNCHANGED <<tc, cm, pm, num_requests, prev_step, clean_run, probe, bench, engine>>

\* A head's vehicle signal is driven from outside the state machine (a
\* hardware fault; the tests assign signal_heads[d].vehicle_signal).
ForceValues == {"GREEN"}

ForceHead ==
    \E d \in InputDirections, v \in ForceValues :
        /\ sc.signal_heads[d].vehicle_signal # v
        /\ sc' = [sc EXCEPT !.signal_heads[d].vehicle_signal = v]
        /\ UNCHANGED <<tc, cm, pm, num_requests, prev_step, last_req, clean_run, probe, bench, engine>>

\* ConflictMonitor.check()
MonitorCheck ==
    LET r == ConflictMonitor_check(cm, sc)
    IN  /\ r.cm.conflict_count <= MaxConflicts
        /\ cm' = r.cm
        /\ sc' = r.sc
        /\ clean_run' = IF ~r.healthy THEN 0
                        ELSE IF clean_run < 0 THEN clean_run
                        ELSE Min(clean_run + 1, CleanChecksToClear)
        /\ UNCHANGED <<tc, pm, num_requests, prev_step, last_req, probe, bench, engine>>

\* TrafficController.tick(now)
TCTick ==
    \E plan \in PlansAt(sc) :
        LET r == TrafficController_tick(sc, cm, pm, plan)
            healthy == ConflictMonitor_check(cm, SignalController_tick(sc, is_active(pm), plan)).healthy
        IN  /\ r.sc.cycle_count <= MaxCycles
            /\ r.cm.conflict_count <= MaxConflicts
            /\ sc' = r.sc
            /\ cm' = r.cm
            /\ pm' = r.pm
            /\ prev_step' = r.sc.current_step
            /\ clean_run' = IF ~healthy THEN 0
                            ELSE IF clean_run < 0 THEN clean_run
                            ELSE Min(clean_run + 1, CleanChecksToClear)
            /\ UNCHANGED <<tc, num_requests, last_req, probe, bench, engine>>

\* TrafficController.trigger_preemption(direction)
TriggerPreemption ==
    \E d \in InputDirections :
        LET r == PreemptionManager_request(pm, sc, PreemptionEvent(num_requests + 1, d))
        IN  /\ num_requests < MaxEvents
            /\ num_requests' = num_requests + 1
            /\ pm' = r.pm
            /\ sc' = r.sc
            /\ UNCHANGED <<tc, cm, prev_step, last_req, clean_run, probe, bench, engine>>

\* TrafficController.clear_preemption()
ClearPreemption ==
    LET r == PreemptionManager_clear(pm, sc)
    IN  /\ pm' = r.pm
        /\ sc' = r.sc
        /\ UNCHANGED <<tc, cm, num_requests, prev_step, last_req, clean_run, probe, bench, engine>>

\* The probed head assignments: every combination of these vehicle and
\* left-turn displays on the four heads.
ProbeVehicle == {"RED", "GREEN", "YELLOW", "ALL_RED"}
ProbeLeftTurn == {"RED", "GREEN_ARROW", "FLASHING_YELLOW"}

ProbeHeads ==
    [Direction -> [vehicle_signal : ProbeVehicle, left_turn_signal : ProbeLeftTurn,
                   pedestrian_signal : {"DONT_WALK"}]]

InitProbe ==
    /\ sc = SignalController_init
    /\ cm = ConflictMonitor_init
    /\ pm = PreemptionManager_init
    /\ num_requests = 0
    /\ tc = TrafficController_init
    /\ prev_step = SignalController_init.current_step
    /\ last_req = None
    /\ clean_run = -1
    /\ probe \in [heads : ProbeHeads, internal : {"unset"}, monitor : {"unset"}]
    /\ bench = NoBench
    /\ engine = NoEngine

\* SignalController._check_conflicts() on a controller showing probe.heads
ProbeInternal ==
    LET s == [sc EXCEPT !.signal_heads = probe.heads]
        r == check_conflicts(s)
    IN  /\ probe.internal = "unset"
        /\ probe' = [probe EXCEPT !.internal =
                        IF r.signal_heads = enter_fault_mode(s).signal_heads
                        THEN "fault" ELSE "no_fault"]
        /\ UNCHANGED <<tc, sc, cm, pm, num_requests, prev_step, last_req, clean_run, bench, engine>>

\* ConflictMonitor.check() on a controller showing probe.heads
ProbeMonitor ==
    LET s == [sc EXCEPT !.signal_heads = probe.heads]
        r == ConflictMonitor_check(cm, s)
    IN  /\ probe.monitor = "unset"
        /\ probe' = [probe EXCEPT !.monitor = IF r.healthy THEN "healthy" ELSE "conflict"]
        /\ UNCHANGED <<tc, sc, cm, pm, num_requests, prev_step, last_req, clean_run, bench, engine>>

\* The constraints handed to the enforcer: every combination of these values.
MaxProposedGreen == 6

BenchConstraints ==
    [min_green_s : {FromInt(1), FromInt(4)},
     max_green_s : {FromInt(3), FromInt(6)},
     yellow_clearance_s : {FromInt(1)},
     all_red_clearance_s : {FromInt(1)},
     min_protected_left_green_s : {FromInt(2)},
     max_protected_left_green_s : {FromInt(4)},
     min_walk_s : {FromInt(1), FromInt(2)},
     ped_clearance_speed_ft_per_s : {FromInt(2)},
     default_crosswalk_distance_ft : {FromInt(3)},
     min_cycle_s : {FromInt(6), FromInt(12)},
     max_cycle_s : {FromInt(9), FromInt(13)}]

\* The phases handed to the enforcer: a left-turn phase and a through phase,
\* with any proposed green from 0 to MaxProposedGreen and with clearance and
\* pedestrian times that differ from the constraints'.
BenchLeft ==
    [phase_id : {1}, is_left_turn : {TRUE}, served_directions : {{"N", "S"}},
     green_time_s : {FromInt(g) : g \in 0..MaxProposedGreen},
     yellow_time_s : {FromInt(3)}, all_red_time_s : {FromInt(0)},
     walk_time_s : {FromInt(0)}, ped_clearance_time_s : {FromInt(0)},
     use_protected_left : {FALSE}]

BenchThrough ==
    [phase_id : {2}, is_left_turn : {FALSE}, served_directions : {{"N", "S"}},
     green_time_s : {FromInt(g) : g \in 0..MaxProposedGreen},
     yellow_time_s : {FromInt(0), FromInt(3)}, all_red_time_s : {FromInt(2)},
     walk_time_s : {FromInt(0), FromInt(4)}, ped_clearance_time_s : {FromInt(0)},
     use_protected_left : {FALSE}]

BenchPhases == {<<l, t>> : l \in BenchLeft, t \in BenchThrough}

\* The plans handed to apply_plan on the bench: greens for both phases or for
\* the through phase only, and a left-turn mode.
BenchPlans ==
    [phase_greens : {(1 :> FromInt(0)) @@ (2 :> FromInt(9)),
                     (1 :> FromInt(9)) @@ (2 :> FromInt(0)),
                     (2 :> FromInt(3))},
     phase_demands : {<< [phase_id |-> 1, needs_protected_left |-> TRUE],
                         [phase_id |-> 2, needs_protected_left |-> FALSE] >>,
                      << [phase_id |-> 2, needs_protected_left |-> FALSE] >>}]

InitTiming ==
    /\ sc = SignalController_init
    /\ cm = ConflictMonitor_init
    /\ pm = PreemptionManager_init
    /\ num_requests = 0
    /\ tc = TrafficController_init
    /\ prev_step = SignalController_init.current_step
    /\ last_req = None
    /\ clean_run = -1
    /\ probe = NoProbe
    /\ \E c \in BenchConstraints, phases \in BenchPhases :
          bench = [c |-> c, input |-> phases, phases |-> phases, prev |-> phases,
                   last |-> "none", calls |-> 0]
    /\ engine = NoEngine

\* TimingEnforcer.enforce(phase) on every phase of the bench, at most twice
BenchEnforce ==
    /\ bench.last \in {"none", "enforce"}
    /\ bench.calls < 2
    /\ bench' = [bench EXCEPT
                    !.prev = bench.phases,
                    !.phases = [i \in 1..Len(bench.phases) |-> enforce(bench.c, bench.phases[i])],
                    !.last = "enforce",
                    !.calls = @ + 1]
    /\ UNCHANGED <<tc, sc, cm, pm, num_requests, prev_step, last_req, clean_run, probe, engine>>

\* TimingEnforcer.enforce_cycle(phases)
BenchEnforceCycle ==
    /\ bench.last = "none"
    /\ bench' = [bench EXCEPT
                    !.prev = bench.phases,
                    !.phases = enforce_cycle(bench.c, bench.phases),
                    !.last = "enforce_cycle",
                    !.calls = @ + 1]
    /\ UNCHANGED <<tc, sc, cm, pm, num_requests, prev_step, last_req, clean_run, probe, engine>>

\* AdaptiveTimingEngine.apply_plan(plan, phase_ring)
BenchApplyPlan ==
    \E plan \in BenchPlans :
        /\ bench.last = "none"
        /\ bench' = [bench EXCEPT
                        !.prev = bench.phases,
                        !.phases = apply_plan(bench.c, plan, bench.phases),
                        !.last = "apply_plan",
                        !.calls = @ + 1]
        /\ UNCHANGED <<tc, sc, cm, pm, num_requests, prev_step, last_req, clean_run, probe, engine>>

\* The queue counts the vision pipeline has left on the lanes at a cycle
\* boundary.
ThroughQueues == {0, MaxThroughQueue \div 2 + 1, MaxThroughQueue}
LeftQueues == {0, MaxLeftQueue - 1, MaxLeftQueue}

\* What _prev_ds holds at a cycle boundary: nothing before the first plan,
\* afterwards the smoothed DS of every phase (here: none, or all saturated).
StoredDS == {<< >>, [pid \in 1..4 |-> <<9, 10>>]}

\* The engine as TrafficController.setup builds it, with default constraints
\* and the standard ring, and any of the queue states on its lanes.
InitAdaptive ==
    /\ sc = SignalController_init
    /\ cm = ConflictMonitor_init
    /\ pm = PreemptionManager_init
    /\ num_requests = 0
    /\ tc = TrafficController_init
    /\ prev_step = SignalController_init.current_step
    /\ last_req = None
    /\ clean_run = -1
    /\ probe = NoProbe
    /\ bench = [c |-> DefaultTiming,
                input |-> create_standard_4way(DefaultTiming),
                phases |-> create_standard_4way(DefaultTiming),
                prev |-> create_standard_4way(DefaultTiming),
                last |-> "none", calls |-> 0]
    /\ \E through \in [Direction -> ThroughQueues], left \in [Direction -> LeftQueues],
          prev_ds \in StoredDS :
          engine = [intersection |-> create_standard(through, left),
                    prev_ds |-> prev_ds, plan |-> NoPlan, reads |-> 0,
                    unread_ds |-> prev_ds]

\* compute_cycle_plan followed by apply_plan, as setup and _on_cycle_complete
\* run them
Replan ==
    /\ bench.calls = 0
    /\ \E plan \in {compute_cycle_plan(bench.c, engine.intersection, engine.prev_ds,
                                        bench.phases)} :
            /\ bench' = [bench EXCEPT
                            !.prev = bench.phases,
                            !.phases = apply_plan(bench.c, plan, bench.phases),
                            !.last = "apply_plan",
                            !.calls = @ + 1]
            /\ engine' = [engine EXCEPT !.prev_ds = plan.prev_ds, !.plan = plan]
            /\ UNCHANGED <<tc, sc, cm, pm, num_requests, prev_step, last_req, clean_run, probe>>

\* ------------------------------------------------------------------------
\* Specifications
\* ------------------------------------------------------------------------
\* The SignalController on its own.
NextSC == AdvanceTime \/ SCTick \/ SCRequest \/ SCClear

SpecSC == Init /\ [][NextSC]_vars

\* tick(): elapsed >= duration
StepExpired == RLe(current_step_duration(sc), FromInt(sc.step_elapsed))

\* the tick that would complete one cycle more than the model follows
CycleBoundReached ==
    /\ sc.cycle_count = MaxCycles
    /\ sc.current_phase_idx = Len(sc.phase_ring) - 1
    /\ sc.current_step = "ALL_RED"
    /\ ~sc.is_preempted

\* no expired step is waiting for a tick
TickServed == ~StepExpired \/ CycleBoundReached

\* The SignalController with ticks continuing and time advancing: time does
\* not stop, and an expired step does not wait forever for its tick (weak
\* fairness of the tick, with its enabling condition written out).
SpecSCLive ==
    Init /\ [][NextSC]_vars /\ WF_vars(AdvanceTime) /\ []<>TickServed

\* The SignalController watched by a ConflictMonitor, heads open to faults.
NextMon == AdvanceTime \/ SCTick \/ ForceHead \/ MonitorCheck

SpecMon == Init /\ [][NextMon]_vars

\* The TrafficController with its preemption interface.
Next == AdvanceTime \/ TCTick \/ TriggerPreemption \/ ClearPreemption

Spec == Init /\ [][Next]_vars

\* The TrafficController, heads open to faults.
NextFault == AdvanceTime \/ TCTick \/ ForceHead

SpecFault == Init /\ [][NextFault]_vars

\* The TrafficController whose holds end only by the timeout.
NextHold == AdvanceTime \/ TCTick \/ TriggerPreemption

SpecHold == Init /\ [][NextHold]_vars

\* tick() would change the controller: a step has expired, the active event
\* has timed out, a queued event can be activated or the monitor has
\* something to count (the enabling condition of a tick that is not a no-op)
TickDue ==
    \E plan \in PlansAt(sc) :
        LET r == TrafficController_tick(sc, cm, pm, plan)
        IN  /\ r.sc.cycle_count <= MaxCycles
            /\ r.cm.conflict_count <= MaxConflicts
            /\ (r.sc # sc \/ r.cm # cm \/ r.pm # pm)

\* no tick that has something to do is waiting
TickRan == ~TickDue

\* The controller with ticks continuing, time advancing and clear() never
\* called: time does not stop, and a tick that has something to do does
\* not wait forever (weak fairness of the tick, with its enabling condition
\* written out).
SpecHoldLive ==
    Init /\ [][NextHold]_vars /\ WF_vars(AdvanceTime) /\ []<>TickRan

\* The TrafficController whose state machine is also reached directly:
\* signal_controller.clear_preemption() is called past the manager.
\* One emergency vehicle is served.
FirstPreemption == num_requests = 0 /\ TriggerPreemption

NextDirect == AdvanceTime \/ TCTick \/ FirstPreemption \/ SCClear

SpecDirect == Init /\ [][NextDirect]_vars

\* ------------------------------------------------------------------------
\* controller.py : run() and tick(), one action per statement group, so
\* that what happens between the sub-steps of a tick can be observed.
\* ------------------------------------------------------------------------
\* run(max_ticks): self.is_running = True; next_tick = time.monotonic()
RunStart ==
    \E limited \in BOOLEAN, n \in 0..MaxTicks :
        /\ tc.pc \in {"idle", "returned"}
        /\ tc.runs < MaxRuns
        /\ limited \/ n = 0
        /\ tc' = [tc EXCEPT !.is_running = TRUE, !.pc = "loop", !.due = TRUE,
                            !.limited = limited, !.max_ticks = n,
                            !.start_count = tc.tick_count, !.runs = @ + 1,
                            !.stopped = FALSE]
        /\ UNCHANGED <<sc, cm, pm, num_requests, prev_step, last_req, clean_run, probe, bench, engine>>

\* run(): time.sleep(...) until now >= next_tick
RunSleep ==
    /\ tc.pc = "loop"
    /\ tc.is_running
    /\ ~tc.due
    /\ sc' = [sc EXCEPT !.step_elapsed = Min(@ + 1, ElapsedCap)]
    /\ pm' = [pm EXCEPT !.hold_elapsed = IF is_active(pm) THEN Min(@ + 1, ElapsedCap) ELSE @]
    /\ tc' = [tc EXCEPT !.due = TRUE, !.vision_age = Min(@ + 1, VisionInterval)]
    /\ UNCHANGED <<cm, num_requests, prev_step, last_req, clean_run, probe, bench, engine>>

\* run(): while self.is_running fails; finally: self.is_running = False
RunLoopExit ==
    /\ tc.pc = "loop"
    /\ ~tc.is_running
    /\ tc' = [tc EXCEPT !.pc = "returned", !.is_running = FALSE]
    /\ UNCHANGED <<sc, cm, pm, num_requests, prev_step, last_req, clean_run, probe, bench, engine>>

\* run(): if now >= next_tick: self.tick(now) ; tick(): self.tick_count += 1
TickBegin ==
    /\ tc.pc = "loop"
    /\ tc.is_running
    /\ tc.due
    /\ tc.tick_count < MaxTickCount
    /\ tc' = [tc EXCEPT !.tick_count = @ + 1, !.pc = "vision", !.obs_idx = 0,
                        !.trace = << >>, !.was_due = vision_due(tc)]
    /\ UNCHANGED <<sc, cm, pm, num_requests, prev_step, last_req, clean_run, probe, bench, engine>>

\* tick(): if now - self.last_vision_time >= vision_interval:
\*             self._run_vision(now); self.last_vision_time = now
\* _run_vision calls provider.detect() unguarded; detect() either returns a
\* frame result, whose count is stored in the lane, or raises.
TickVision ==
    \E detected \in BOOLEAN, count \in 0..MaxQueue :
        /\ tc.pc = "vision"
        /\ IF ~vision_due(tc)
           THEN /\ detected /\ count = 0
                /\ tc' = [tc EXCEPT !.pc = after_substep("vision")]
           ELSE IF detected
           THEN tc' = [tc EXCEPT !.queue = count, !.vision_age = 0,
                                 !.trace = Append(@, "vision"),
                                 !.pc = after_substep("vision")]
           ELSE /\ count = 0
                /\ tc' = raise_through_run([tc EXCEPT !.trace = Append(@, "vision")], "detect")
        /\ UNCHANGED <<sc, cm, pm, num_requests, prev_step, last_req, clean_run, probe, bench, engine>>

\* tick(): self.signal_controller.tick(now)
TickStateMachine ==
    \E plan \in PlansAt(sc) :
        LET ticked == SignalController_tick(sc, is_active(pm), plan)
        IN  /\ tc.pc = "state_machine"
            /\ ticked.cycle_count <= MaxCycles
            /\ sc' = ticked
            /\ prev_step' = ticked.current_step
            /\ tc' = [tc EXCEPT !.trace = Append(@, "state_machine"),
                                !.sm_heads = [tick |-> tc.tick_count, heads |-> ticked.signal_heads],
                                !.pc = after_substep("state_machine")]
            /\ UNCHANGED <<cm, pm, num_requests, last_req, clean_run, probe, bench, engine>>

\* tick(): self.conflict_monitor.check()
TickMonitor ==
    LET r == ConflictMonitor_check(cm, sc)
    IN  /\ tc.pc = "monitor"
        /\ r.cm.conflict_count <= MaxConflicts
        /\ sc' = r.sc
        /\ cm' = r.cm
        /\ clean_run' = IF ~r.healthy THEN 0
                        ELSE IF clean_run < 0 THEN clean_run
                        ELSE Min(clean_run + 1, CleanChecksToClear)
        /\ tc' = [tc EXCEPT !.trace = Append(@, "monitor"),
                            !.cm_heads = [tick |-> tc.tick_count, heads |-> sc.signal_heads],
                            !.pc = after_substep("monitor")]
        /\ UNCHANGED <<pm, num_requests, prev_step, last_req, probe, bench, engine>>

\* tick(): self.preemption_manager.tick()
TickPreemption ==
    LET r == PreemptionManager_tick(pm, sc)
    IN  /\ tc.pc = "preemption"
        /\ sc' = r.sc
        /\ pm' = r.pm
        /\ tc' = [tc EXCEPT !.trace = Append(@, "preemption"),
                            !.settled = Snapshot(tc.tick_count, r.sc, cm, r.pm),
                            !.pc = after_substep("preemption")]
        /\ UNCHANGED <<cm, num_requests, prev_step, last_req, clean_run, probe, bench, engine>>

\* What a callback of on_tick may do to the controller it is handed: nothing,
\* set is_running to False, or raise.
ObserverBehaviour == {"ok", "stop", "raise"}

\* tick(): for callback in self.on_tick: callback(self)   (one iteration)
TickObserver ==
    \E behaviour \in ObserverBehaviour :
        LET called == [tc EXCEPT !.trace = Append(@, "observer"),
                                 !.seen = Snapshot(tc.tick_count, sc, cm, pm),
                                 !.obs_idx = @ + 1]
        IN  /\ tc.pc = "observers"
            /\ tc.obs_idx < NumObservers
            /\ tc' = CASE behaviour = "ok" -> called
                       [] behaviour = "stop" -> [called EXCEPT !.is_running = FALSE, !.stopped = TRUE]
                       [] behaviour = "raise" -> raise_through_run(called, "observer")
            /\ UNCHANGED <<sc, cm, pm, num_requests, prev_step, last_req, clean_run, probe, bench, engine>>

\* tick() returns; run(): next_tick += interval;
\* if max_ticks is not None and self.tick_count >= max_ticks: break
\* (and finally: self.is_running = False)
TickReturn ==
    /\ tc.pc = "observers"
    /\ tc.obs_idx = NumObservers
    /\ tc' = IF max_ticks_reached(tc)
             THEN [tc EXCEPT !.pc = "returned", !.is_running = FALSE, !.due = FALSE]
             ELSE [tc EXCEPT !.pc = "loop", !.due = FALSE]
    /\ UNCHANGED <<sc, cm, pm, num_requests, prev_step, last_req, clean_run, probe, bench, engine>>

\* TrafficController.trigger_preemption(direction), called between ticks
RunTrigger ==
    /\ tc.pc \in {"idle", "loop"}
    /\ FirstPreemption

NextRun ==
    \/ RunStart \/ RunSleep \/ RunLoopExit \/ TickBegin \/ TickVision
    \/ TickStateMachine \/ TickMonitor \/ TickPreemption \/ TickObserver
    \/ TickReturn \/ RunTrigger

SpecRun == Init /\ [][NextRun]_vars

\* Both conflict checks run on the same head assignment.
NextProbe == ProbeInternal \/ ProbeMonitor

SpecProbe == InitProbe /\ [][NextProbe]_vars

\* The timing enforcer and apply_plan on the bench.
NextTiming == BenchEnforce \/ BenchEnforceCycle \/ BenchApplyPlan

SpecTiming == InitTiming /\ [][NextTiming]_vars

\* TimingEnforcer.enforce_cycle(phases) on the list an earlier
\* enforce_cycle returned
BenchEnforceCycleAgain ==
    /\ bench.last = "enforce_cycle"
    /\ bench.calls = 1
    /\ bench' = [bench EXCEPT
                    !.prev = bench.phases,
                    !.phases = enforce_cycle(bench.c, bench.phases),
                    !.last = "enforce_cycle",
                    !.calls = @ + 1]
    /\ UNCHANGED <<tc, sc, cm, pm, num_requests, prev_step, last_req, clean_run, probe, engine>>

\* The enforcer's cycle-level wrapper called twice on the same list.
NextCycleTwice == BenchEnforceCycle \/ BenchEnforceCycleAgain

SpecCycleTwice == InitTiming /\ [][NextCycleTwice]_vars

\* The adaptive engine replanning the standard ring.
NextAdaptive == Replan

SpecAdaptive == InitAdaptive /\ [][NextAdaptive]_vars

\* TrafficController.get_full_status() / AdaptiveTimingEngine.get_diagnostics(),
\* called between ticks before the cycle completes
MaxReads == 1

GetDiagnostics ==
    /\ bench.calls = 0
    /\ engine.reads < MaxReads
    /\ \E stored \in {get_diagnostics(bench.c, engine.intersection, engine.prev_ds,
                                      bench.phases)} :
            engine' = [engine EXCEPT !.prev_ds = stored, !.reads = @ + 1]
    /\ UNCHANGED <<tc, sc, cm, pm, num_requests, prev_step, last_req, clean_run, probe, bench>>

\* The engine whose status is read before the cycle's plan is computed.
NextStatus == GetDiagnostics \/ Replan

SpecStatus == InitAdaptive /\ [][NextStatus]_vars

\* ------------------------------------------------------------------------
\* Properties
\* ------------------------------------------------------------------------
GreenDirections(heads) ==
    {d \in Direction : \/ heads[d].vehicle_signal \in {"GREEN", "YELLOW"}
                       \/ heads[d].left_turn_signal = "GREEN_ARROW"}

ConflictShown(heads) ==
    \E pair \in {<<"N", "E">>, <<"N", "W">>, <<"S", "E">>, <<"S", "W">>} :
        pair[1] \in GreenDirections(heads) /\ pair[2] \in GreenDirections(heads)

TurnsGreen(x) ==
    sc.signal_heads[x].vehicle_signal # "GREEN" /\ sc'.signal_heads[x].vehicle_signal = "GREEN"

LegalStepChange(a, b) ==
    \/ a = b
    \/ a = "GREEN" /\ b = "YELLOW"
    \/ a = "YELLOW" /\ b = "ALL_RED"
    \/ a = "ALL_RED" /\ b = "GREEN"

\* C1 (SpecSC): after any sequence of tick, request_preemption and
\* clear_preemption calls no conflicting pair of directions is in
\* green_directions.
C1_NoConflictingGreens == ~ConflictShown(sc.signal_heads)

C1_Witness ==
    /\ sc.cycle_count >= 1
    /\ sc.signal_heads["E"].left_turn_signal = "GREEN_ARROW"
    /\ sc.signal_heads["W"].left_turn_signal = "GREEN_ARROW"

\* C2 (SpecSC), as claimed: a vehicle head that shows GREEN next shows GREEN or
\* YELLOW; it never goes from GREEN directly to RED.
C2_ClearanceNeverSkipped ==
    [][\A d \in Direction :
          sc.signal_heads[d].vehicle_signal = "GREEN"
              => sc'.signal_heads[d].vehicle_signal \in {"GREEN", "YELLOW"}]_vars

\* C3 (SpecSC), as claimed: between two consecutive per-tick observations the
\* step stays or moves GREEN->YELLOW, YELLOW->ALL_RED or ALL_RED->GREEN.
C3_PerTickObservation == [][LegalStepChange(prev_step, prev_step')]_vars

\* C3 (SpecSC), amended: every single call (tick, request_preemption,
\* clear_preemption) leaves the step unchanged or moves it GREEN->YELLOW,
\* YELLOW->ALL_RED or ALL_RED->GREEN.
C3_PerCall == [][LegalStepChange(sc.current_step, sc'.current_step)]_vars

C3_Witness ==
    /\ sc.is_preempted
    /\ sc.current_step = "ALL_RED"
    /\ prev_step = "ALL_RED"

\* C4 (SpecSC), as claimed: after request_preemption(d) from any state, the
\* next vehicle head to turn GREEN is d's, out of the ALL_RED step.
C4_FromAnyState ==
    [][\A x \in Direction :
          (last_req # None /\ last_req' = last_req /\ TurnsGreen(x))
              => (x = last_req /\ sc.current_step = "ALL_RED")]_vars

\* C4 (SpecSC), amended: request_preemption(d) on a machine that is not
\* preempted makes it preempted for d with no vehicle head GREEN; until
\* cleared the direction is kept, a vehicle head turns GREEN only out of the
\* ALL_RED step and only d's does, ALL_RED is entered only from YELLOW, and
\* the only vehicle head GREEN while preempted is d's.
C4_NotPreempted ==
    /\ [](sc.is_preempted =>
            \A x \in Direction :
                sc.signal_heads[x].vehicle_signal = "GREEN"
                    => (x = sc.preemption_direction /\ sc.current_step = "GREEN"))
    /\ [][/\ (~sc.is_preempted /\ sc'.is_preempted) =>
                /\ sc'.preemption_direction = last_req'
                /\ sc'.current_step \in {"YELLOW", "ALL_RED"}
                /\ \A x \in Direction : sc'.signal_heads[x].vehicle_signal # "GREEN"
          /\ (sc.is_preempted /\ sc'.is_preempted) =>
                sc'.preemption_direction = sc.preemption_direction
          /\ \A x \in Direction :
                (sc'.is_preempted /\ TurnsGreen(x)) =>
                    (x = sc'.preemption_direction /\ sc.current_step = "ALL_RED")
          /\ (sc'.current_step = "ALL_RED" /\ sc.current_step # "ALL_RED") =>
                sc.current_step = "YELLOW"]_vars

C4_Witness ==
    /\ sc.is_preempted
    /\ last_req = sc.preemption_direction
    /\ sc.signal_heads[sc.preemption_direction].vehicle_signal = "GREEN"

AllRed(heads) ==
    \A d \in Direction :
        /\ heads[d].vehicle_signal \in {"RED", "ALL_RED"}
        /\ heads[d].left_turn_signal \in {"RED", "ALL_RED"}
        /\ heads[d].pedestrian_signal = "DONT_WALK"

\* C5 (SpecMon), as claimed: while fault_active is true no call changes the
\* step or the phase, and any call of the program that changes the heads
\* leaves them all red.
C5_FaultStopsMachine ==
    [][cm.fault_active =>
          /\ sc'.current_step = sc.current_step
          /\ sc'.current_phase_idx = sc.current_phase_idx
          /\ (sc'.signal_heads # sc.signal_heads /\ ~ForceHead) => AllRed(sc'.signal_heads)]_vars

\* C6 (SpecMon): once a conflict has been detected, fault_active is true
\* exactly while fewer than clean_checks_to_clear clean checks have followed
\* the most recent conflict, and while it is true the monitor's counter equals
\* that number of clean checks.
C6_FaultLatch ==
    clean_run >= 0 =>
        /\ cm.fault_active <=> clean_run < CleanChecksToClear
        /\ cm.fault_active => cm.consecutive_clean = clean_run

C6_Witness ==
    /\ clean_run = CleanChecksToClear - 1
    /\ cm.fault_active
    /\ cm.conflict_count = 2

\* C7 (SpecMon), as claimed: a check() that finds a conflict leaves no
\* conflicting pair on the heads and adds exactly 1 to conflict_count; a
\* clean check leaves conflict_count unchanged.
C7_EveryConflictForcesRed ==
    [][MonitorCheck =>
          IF ConflictShown(sc.signal_heads)
          THEN /\ ~ConflictShown(sc'.signal_heads)
               /\ cm'.conflict_count = cm.conflict_count + 1
          ELSE cm'.conflict_count = cm.conflict_count]_vars

\* C8 (SpecFault), as claimed: a TrafficController.tick() called with a
\* conflicting pair on the heads ends with fault_active true and
\* conflict_count increased.
C8_FaultObservable ==
    [][(TCTick /\ ConflictShown(sc.signal_heads)) =>
          (cm'.fault_active /\ cm'.conflict_count > cm.conflict_count)]_vars

\* C9 (SpecProbe): on every head assignment _check_conflicts enters fault
\* mode if and only if ConflictMonitor.check() returns False.
C9_SameDecision ==
    (probe.internal # "unset" /\ probe.monitor # "unset") =>
        (probe.internal = "fault" <=> probe.monitor = "conflict")

C9_Witness ==
    /\ probe.internal = "fault"
    /\ probe.monitor = "conflict"
    /\ probe.heads["N"].left_turn_signal = "GREEN_ARROW"
    /\ probe.heads["N"].vehicle_signal = "RED"
    /\ probe.heads["E"].vehicle_signal = "YELLOW"

\* C10 (Spec): a request made with no active event makes the new event the
\* active one and leaves pending unchanged; a request made while an event is
\* active leaves the active event unchanged and appends the new event to the
\* tail of pending.
C10_RequestQueues ==
    [][num_requests' = num_requests + 1 =>
          IF ~is_active(pm)
          THEN /\ pm'.active_event.id = num_requests'
               /\ pm'.active_event.direction \in Direction
               /\ pm'.pending = pm.pending
          ELSE /\ pm'.active_event = pm.active_event
               /\ Len(pm'.pending) = Len(pm.pending) + 1
               /\ SubSeq(pm'.pending, 1, Len(pm.pending)) = pm.pending
               /\ pm'.pending[Len(pm'.pending)].id = num_requests'
               /\ pm'.pending[Len(pm'.pending)].direction \in Direction]_vars

C10_Witness ==
    /\ is_active(pm)
    /\ Len(pm.pending) = 1
    /\ pm.pending[1].id = 2
    /\ pm.active_event.id = 1

ClearEffect(p, s, q, t) ==
    /\ q.history = Append(p.history, [p.active_event EXCEPT !.cleared = TRUE])
    /\ IF p.pending # << >>
       THEN /\ q.active_event = [Head(p.pending) EXCEPT !.activated = TRUE]
            /\ Len(q.pending) = Len(p.pending) - 1
            /\ q.pending = Tail(p.pending)
            /\ t.is_preempted
            /\ t.preemption_direction = Head(p.pending).direction
       ELSE /\ q.active_event = NoEvent
            /\ q.pending = << >>
            /\ ~t.is_preempted

\* C12 (Spec): clear() with an active event archives it (cleared, appended
\* to history) and clears the state machine's preemption; the oldest pending
\* event, if any, becomes active and the state machine is preempted for its
\* direction, otherwise nothing is active and is_preempted is false.  clear()
\* with no active event changes nothing.
C12_ClearEffects ==
    [][ClearPreemption =>
          IF is_active(pm) THEN ClearEffect(pm, sc, pm', sc')
          ELSE pm' = pm /\ sc' = sc]_vars

C12_Witness ==
    /\ Len(pm.history) = 1
    /\ pm.history[1].cleared
    /\ pm.active_event.id = 2
    /\ pm.active_event.direction # pm.history[1].direction
    /\ pm.pending = << >>
    /\ sc.is_preempted
    /\ sc.preemption_direction = pm.active_event.direction

\* C13 (SpecHold): tick() clears the active event, with the effects of
\* clear(), exactly when its hold has lasted at least max_hold_s; an active
\* event held for less is left as it is.
C13_AutoClear ==
    [][TCTick =>
          IF is_active(pm) /\ pm.hold_elapsed >= MaxHold THEN ClearEffect(pm, sc, pm', sc')
          ELSE IF is_active(pm) THEN pm' = pm
          ELSE TRUE]_vars

C13_Witness ==
    /\ Len(pm.history) = 2
    /\ pm.history[2].cleared
    /\ ~is_active(pm)
    /\ ~sc.is_preempted

\* The GREEN step of s ends: the step changes from GREEN to YELLOW.
GreenEnds == sc.current_step = "GREEN" /\ sc'.current_step = "YELLOW"

\* C14 (SpecSC), as claimed: for all sequences of ticks and preemption
\* inputs a GREEN step ends only after min_green_s minus one tick interval
\* (min_protected_left_green_s minus one tick interval in a protected
\* left-turn phase).
C14_AllInputs ==
    [][GreenEnds =>
          sc.step_elapsed >=
              (IF current_phase(sc).is_left_turn /\ current_phase(sc).use_protected_left
               THEN MinProtectedLeftGreen ELSE MinGreen) - TickInterval]_vars

\* C14 (SpecSC), amended: a GREEN step ended by tick() has lasted at least
\* min_green_s minus one tick interval (min_protected_left_green_s minus one
\* tick interval in a left-turn phase, protected or permissive); the only
\* other way a GREEN step ends is an accepted request_preemption, which ends
\* it at once.
C14_TickEnded ==
    [][GreenEnds =>
          \/ ~sc.is_preempted /\ sc'.is_preempted
          \/ sc.step_elapsed >=
                (IF current_phase(sc).is_left_turn
                 THEN MinProtectedLeftGreen ELSE MinGreen) - TickInterval]_vars

C14_Witness ==
    /\ sc.current_step = "YELLOW"
    /\ sc.step_elapsed = 0
    /\ ~sc.is_preempted
    /\ last_req = None
    /\ current_phase(sc).is_left_turn
    /\ current_phase(sc).use_protected_left

\* The phases of the bench after a call.
Enforced(i) == bench.last # "none" /\ i \in 1..Len(bench.phases)

MinOfKind(c, phase) ==
    IF phase.is_left_turn THEN c.min_protected_left_green_s ELSE c.min_green_s

MaxOfKind(c, phase) ==
    IF phase.is_left_turn THEN c.max_protected_left_green_s ELSE c.max_green_s

\* The least green a phase may have: the minimum of its kind and, for a
\* through phase, walk plus pedestrian clearance.
LeastGreen(c, phase) ==
    IF phase.is_left_turn THEN MinOfKind(c, phase)
    ELSE RMax(MinOfKind(c, phase), RAdd(phase.walk_time_s, phase.ped_clearance_time_s))

\* C15 (SpecTiming), as claimed: after enforce, enforce_cycle or apply_plan
\* every green lies between the minimum and the maximum of its kind.
C15_WithinKindBounds ==
    \A i \in 1..Len(bench.phases) :
        Enforced(i) =>
            /\ RLe(MinOfKind(bench.c, bench.phases[i]), bench.phases[i].green_time_s)
            /\ RLe(bench.phases[i].green_time_s, MaxOfKind(bench.c, bench.phases[i]))

\* C15 (SpecTiming), amended: every green is at least the minimum of its
\* kind; it exceeds the maximum of its kind only when the least green of the
\* phase (the minimum of its kind or, for a through phase, walk plus
\* pedestrian clearance) exceeds that maximum, and is then exactly that
\* least green.
C15_BoundsWithPedestrianPrecedence ==
    \A i \in 1..Len(bench.phases) :
        Enforced(i) =>
            LET p == bench.phases[i]
            IN  /\ RLe(MinOfKind(bench.c, p), p.green_time_s)
                /\ \/ RLe(p.green_time_s, MaxOfKind(bench.c, p))
                   \/ p.green_time_s = LeastGreen(bench.c, p)

C15_Witness ==
    /\ bench.last = "apply_plan"
    /\ RLe(bench.c.min_green_s, bench.c.max_green_s)
    /\ RLt(bench.c.max_green_s, bench.phases[2].green_time_s)
    /\ bench.phases[1].green_time_s = bench.c.min_protected_left_green_s

\* C16 (SpecTiming): after enforce, enforce_cycle or apply_plan every
\* through phase has walk + ped_clearance <= green, walk >= min_walk_s and
\* ped_clearance equal to crosswalk distance / walking speed.
C16_PedestrianContainment ==
    \A i \in 1..Len(bench.phases) :
        (Enforced(i) /\ ~bench.phases[i].is_left_turn) =>
            LET p == bench.phases[i]
            IN  /\ RLe(RAdd(p.walk_time_s, p.ped_clearance_time_s), p.green_time_s)
                /\ RLe(bench.c.min_walk_s, p.walk_time_s)
                /\ p.ped_clearance_time_s = ped_clearance_s(bench.c)

\* The cycle of the bench was scaled down by the latest call.
ScaledDown ==
    /\ bench.last = "enforce_cycle"
    /\ RLt(bench.c.max_cycle_s,
           cycle_total([i \in 1..Len(bench.prev) |-> enforce(bench.c, bench.prev[i])]))

ScaledUp ==
    /\ bench.last = "enforce_cycle"
    /\ RLt(cycle_total([i \in 1..Len(bench.prev) |-> enforce(bench.c, bench.prev[i])]),
           bench.c.min_cycle_s)

C16_Witness ==
    /\ ScaledDown
    /\ bench.phases[2].green_time_s =
           RAdd(bench.phases[2].walk_time_s, bench.phases[2].ped_clearance_time_s)
    /\ bench.phases[2].walk_time_s = FromInt(4)

InCycleBounds(c, phases) ==
    /\ RLe(c.min_cycle_s, cycle_total(phases))
    /\ RLe(cycle_total(phases), c.max_cycle_s)

\* Some greens within every phase's own bounds have a sum inside the cycle
\* bounds: the least greens do not exceed max_cycle_s and the largest greens
\* reach min_cycle_s.
Feasible(c, phases) ==
    LET least == [i \in 1..Len(phases) |-> LeastGreen(c, phases[i])]
        most == [i \in 1..Len(phases) |-> RMax(MaxOfKind(c, phases[i]), least[i])]
    IN  /\ RLe(c.min_cycle_s, c.max_cycle_s)
        /\ RLe(RAdd(RSum(least), fixed_time(phases)), c.max_cycle_s)
        /\ RLe(c.min_cycle_s, RAdd(RSum(most), fixed_time(phases)))

\* C17 (SpecTiming), as claimed: after enforce_cycle the cycle is within the
\* cycle bounds unless no greens within the per-phase bounds fit them.
C17_CycleBoundsUnlessInfeasible ==
    bench.last \in {"enforce_cycle", "apply_plan"} =>
        (Feasible(bench.c, bench.phases) => InCycleBounds(bench.c, bench.phases))

OnOwnBound(c, phase) ==
    \/ phase.green_time_s = MinOfKind(c, phase)
    \/ phase.green_time_s = MaxOfKind(c, phase)
    \/ phase.green_time_s = LeastGreen(c, phase)

\* C17 (SpecTiming), amended: with min_cycle_s <= max_cycle_s, after
\* enforce_cycle the cycle is within the cycle bounds unless the green of at
\* least one phase sits on one of that phase's own bounds.
C17_CycleBoundsUnlessClamped ==
    (bench.last \in {"enforce_cycle", "apply_plan"} /\ RLe(bench.c.min_cycle_s, bench.c.max_cycle_s)) =>
        \/ InCycleBounds(bench.c, bench.phases)
        \/ \E i \in 1..Len(bench.phases) : OnOwnBound(bench.c, bench.phases[i])

C17_Witness ==
    /\ ScaledDown
    /\ InCycleBounds(bench.c, bench.phases)
    /\ \A i \in 1..Len(bench.phases) : ~OnOwnBound(bench.c, bench.phases[i])
    /\ bench.phases[1].green_time_s[2] > 1

\* C18 (SpecTiming): enforce applied to a phase that enforce returned gives
\* the same phase, field by field.
C18_Idempotent ==
    (bench.last = "enforce" /\ bench.calls = 2) => bench.phases = bench.prev

C18_Witness ==
    /\ bench.last = "enforce"
    /\ bench.calls = 2
    /\ bench.prev # bench.input
    /\ RLt(bench.c.max_green_s, bench.phases[2].green_time_s)

\* C20 (SpecTiming): after enforce, enforce_cycle or apply_plan every phase
\* has yellow equal to yellow_clearance_s and all-red equal to
\* all_red_clearance_s.
C20_ClearanceFixed ==
    \A i \in 1..Len(bench.phases) :
        Enforced(i) =>
            /\ bench.phases[i].yellow_time_s = bench.c.yellow_clearance_s
            /\ bench.phases[i].all_red_time_s = bench.c.all_red_clearance_s

C20_Witness ==
    /\ bench.last = "apply_plan"
    /\ \A i \in 1..Len(bench.input) :
          /\ bench.input[i].yellow_time_s # bench.c.yellow_clearance_s
          /\ bench.input[i].all_red_time_s # bench.c.all_red_clearance_s
    /\ bench.phases[2].green_time_s # bench.input[2].green_time_s

\* The total queue of a phase, and the longest queue on one of its lanes.
TotalQueue(phase) ==
    IF phase.is_left_turn
    THEN engine.intersection[first_served(phase)].left_turn_lane.queue_count
             + engine.intersection[IF first_served(phase) = "N" THEN "S" ELSE "W"].left_turn_lane.queue_count
    ELSE engine.intersection[first_served(phase)].through_lane.queue_count
             + engine.intersection[IF first_served(phase) = "N" THEN "S" ELSE "W"].through_lane.queue_count

LongestQueue(phase) ==
    IF phase.is_left_turn
    THEN Max(engine.intersection[first_served(phase)].left_turn_lane.queue_count,
             engine.intersection[IF first_served(phase) = "N" THEN "S" ELSE "W"].left_turn_lane.queue_count)
    ELSE Max(engine.intersection[first_served(phase)].through_lane.queue_count,
             engine.intersection[IF first_served(phase) = "N" THEN "S" ELSE "W"].through_lane.queue_count)

\* C19 (SpecAdaptive), as claimed: of two phases of equal type the one with
\* the larger total queue gets at least as much green from compute_cycle_plan
\* followed by apply_plan.
C19_TotalQueueOrdersGreen ==
    bench.calls >= 1 =>
        \A i, j \in 1..Len(bench.phases) :
            (/\ bench.phases[i].is_left_turn = bench.phases[j].is_left_turn
             /\ TotalQueue(bench.phases[i]) > TotalQueue(bench.phases[j]))
                => RLe(bench.phases[j].green_time_s, bench.phases[i].green_time_s)

\* C19 (SpecAdaptive), amended: of two phases of equal type and, if they are
\* left-turn phases, of equal left-turn mode, the one whose longest
\* single-lane queue is at least the other's gets at least as much green.
C19_LongestQueueOrdersGreen ==
    bench.calls >= 1 =>
        \A i, j \in 1..Len(bench.phases) :
            (/\ bench.phases[i].is_left_turn = bench.phases[j].is_left_turn
             /\ bench.phases[i].use_protected_left = bench.phases[j].use_protected_left
             /\ LongestQueue(bench.phases[i]) >= LongestQueue(bench.phases[j]))
                => RLe(bench.phases[j].green_time_s, bench.phases[i].green_time_s)

C19_Witness ==
    /\ bench.calls = 1
    /\ engine.prev_ds # << >>
    /\ LongestQueue(bench.phases[4]) > LongestQueue(bench.phases[2])
    /\ TotalQueue(bench.phases[2]) > TotalQueue(bench.phases[4])
    /\ RLt(bench.phases[2].green_time_s, bench.phases[4].green_time_s)
    /\ bench.phases[1].use_protected_left
    /\ ~bench.phases[3].use_protected_left

\* C25 (SpecSC): the phase index changes only when an ALL_RED step expires
\* on a machine that is not preempted, and then to (idx + 1) mod N; when the
\* index wraps to 0 from a non-zero index cycle_count grows by exactly 1 and
\* on_cycle_complete is called once with the new count; no other call, and
\* no entry into or exit from a preemption hold, changes cycle_count or calls
\* on_cycle_complete.
C25_CycleAccounting ==
    [][/\ sc'.current_phase_idx # sc.current_phase_idx =>
              /\ sc.current_step = "ALL_RED"
              /\ ~sc.is_preempted
              /\ RLe(current_phase(sc).all_red_time_s, FromInt(sc.step_elapsed))
              /\ sc'.current_phase_idx = (sc.current_phase_idx + 1) % Len(sc.phase_ring)
       /\ IF sc'.current_phase_idx = 0 /\ sc.current_phase_idx # 0
          THEN /\ sc'.cycle_count = sc.cycle_count + 1
               /\ sc'.cycle_complete_calls = Append(sc.cycle_complete_calls, sc'.cycle_count)
          ELSE /\ sc'.cycle_count = sc.cycle_count
               /\ sc'.cycle_complete_calls = sc.cycle_complete_calls]_vars

C25_Witness ==
    /\ sc.cycle_count = 1
    /\ sc.cycle_complete_calls = <<1>>
    /\ sc.current_phase_idx = 0
    /\ sc.is_preempted
    /\ sc.current_step = "GREEN"

\* Green and left-turn mode of every phase of a ring.
GreensAndModes(ring) ==
    [i \in 1..Len(ring) |-> <<ring[i].green_time_s, ring[i].use_protected_left>>]

\* C26 (SpecDirect): a tick in which cycle_count increments applies one plan
\* to the ring, once, and records the count, unless a preemption is active in
\* the manager, in which case the ring and the recorded count are left alone;
\* nothing else changes a phase's green or left-turn mode.
C26_ReplanOncePerCycle ==
    [][/\ (TCTick /\ sc'.cycle_count = sc.cycle_count + 1) =>
              IF is_active(pm)
              THEN /\ sc'.phase_ring = sc.phase_ring
                   /\ sc'.last_cycle_count = sc.last_cycle_count
              ELSE /\ \E plan \in Plans :
                          sc'.phase_ring = apply_plan(Timing, plan, sc.phase_ring)
                   /\ sc'.last_cycle_count = sc'.cycle_count
       /\ GreensAndModes(sc'.phase_ring) # GreensAndModes(sc.phase_ring) =>
              (TCTick /\ sc'.cycle_count = sc.cycle_count + 1)
       /\ sc'.cycle_count = sc.cycle_count => sc'.last_cycle_count = sc.last_cycle_count]_vars

\* Both cases: a cycle completed with a plan applied that changed a mode, and
\* (next definition) a cycle completed with the manager holding an event.
C26_Witness ==
    /\ sc.cycle_count = 1
    /\ sc.last_cycle_count = 1
    /\ sc.phase_ring[1].use_protected_left
    /\ ~sc.phase_ring[3].use_protected_left

C26_SkipReached ==
    /\ sc.cycle_count = 1
    /\ sc.last_cycle_count = 0
    /\ is_active(pm)

\* The heads as derived from the current phase, the step and the preemption
\* direction alone: during a preemption hold only the preemption direction's
\* vehicle head is GREEN, otherwise the served directions of the current
\* phase display the step and everything else is red.
HoldHeads(d) ==
    [x \in Direction |-> IF x = d THEN [SignalHead EXCEPT !.vehicle_signal = "GREEN"]
                                  ELSE SignalHead]

DerivedHeads(s) ==
    IF s.is_preempted /\ s.current_step = "GREEN"
    THEN HoldHeads(s.preemption_direction)
    ELSE [x \in Direction |->
            IF x \in current_phase(s).served_directions /\ s.current_step # "ALL_RED"
            THEN served_head(current_phase(s), s.current_step)
            ELSE SignalHead]

\* C27 (SpecSC), as claimed: in every state reached by tick,
\* request_preemption and clear_preemption the heads equal the derivation
\* from current phase, step and preemption direction.
C27_HeadsDerived == sc.signal_heads = DerivedHeads(sc)

\* The left-turn display of the current phase follows its mode.
LeftTurnDisplayFollowsMode ==
    \A d \in current_phase(sc).served_directions :
        /\ sc.signal_heads[d].left_turn_signal =
              (IF current_phase(sc).use_protected_left THEN "GREEN_ARROW" ELSE "FLASHING_YELLOW")
        /\ sc.signal_heads[d].vehicle_signal = "RED"

\* C28 (Spec), as claimed: whenever the machine is in GREEN of a left-turn
\* phase and not preempted, the served directions' left-turn heads show
\* GREEN_ARROW if the phase's use_protected_left is true, FLASHING_YELLOW
\* otherwise, and their vehicle heads are red.
C28_PlanGovernsDisplay ==
    (sc.current_step = "GREEN" /\ current_phase(sc).is_left_turn /\ ~sc.is_preempted)
        => LeftTurnDisplayFollowsMode

\* C28 (Spec), as claimed, for runs in which no preemption was ever
\* requested: in GREEN of a left-turn phase the served directions' left-turn
\* heads show the phase's current mode and their vehicle heads are red.
C28_WithoutPreemption ==
    (sc.current_step = "GREEN" /\ current_phase(sc).is_left_turn /\ num_requests = 0)
        => LeftTurnDisplayFollowsMode

\* The machine is in a preemption hold.
InHold(s) == s.is_preempted /\ s.current_step = "GREEN"

\* C29 (SpecSC): a tick that finds a preempted machine's ALL_RED step
\* expired enters the hold: step GREEN, phase index unchanged, the preemption
\* direction's vehicle head GREEN and every other head channel red or
\* don't-walk.  In the hold the heads are these, and as long as is_preempted
\* stays true no call changes the step, the phase index or the heads, however
\* much time has elapsed; the hold ends only by clear_preemption.
C29_PreemptionHold ==
    /\ [](InHold(sc) => sc.signal_heads = HoldHeads(sc.preemption_direction))
    /\ [][/\ (/\ SCTick
               /\ sc.is_preempted
               /\ sc.current_step = "ALL_RED"
               /\ RLe(current_phase(sc).all_red_time_s, FromInt(sc.step_elapsed))) =>
                  /\ InHold(sc')
                  /\ sc'.current_phase_idx = sc.current_phase_idx
                  /\ sc'.step_elapsed = 0
          /\ (InHold(sc) /\ sc'.is_preempted) =>
                  /\ sc'.current_step = sc.current_step
                  /\ sc'.current_phase_idx = sc.current_phase_idx
                  /\ sc'.signal_heads = sc.signal_heads
          /\ (InHold(sc) /\ ~sc'.is_preempted) => SCClear]_vars

C29_Witness ==
    /\ InHold(sc)
    /\ sc.step_elapsed = ElapsedCap
    /\ sc.preemption_direction = "E"
    /\ sc.current_phase_idx = 0
    /\ sc.signal_heads["E"].vehicle_signal = "GREEN"
    /\ sc.signal_heads["N"].left_turn_signal = "RED"

\* C30 (SpecSC): request_preemption(d) on a machine that is not preempted
\* sets is_preempted and preemption_direction = d; from GREEN or
\* FLASHING_YELLOW the step becomes YELLOW with the step timer restarted and
\* the heads those of the current phase in YELLOW, from YELLOW or ALL_RED the
\* step, its timer and the heads are left as they are; the phase index, the
\* ring and the cycle count are unchanged.  On a preempted machine the call
\* changes nothing.
C30_RequestEffects ==
    [][SCRequest =>
          IF sc.is_preempted THEN sc' = sc
          ELSE /\ sc'.is_preempted
               /\ sc'.preemption_direction = last_req'
               /\ sc'.current_phase_idx = sc.current_phase_idx
               /\ sc'.phase_ring = sc.phase_ring
               /\ sc'.cycle_count = sc.cycle_count
               /\ IF sc.current_step \in {"GREEN", "FLASHING_YELLOW"}
                  THEN /\ sc'.current_step = "YELLOW"
                       /\ sc'.step_elapsed = 0
                       /\ \A d \in Direction :
                             sc'.signal_heads[d] =
                                 IF d \in current_phase(sc).served_directions
                                 THEN served_head(current_phase(sc), "YELLOW")
                                 ELSE SignalHead
                  ELSE /\ sc'.current_step = sc.current_step
                       /\ sc'.step_elapsed = sc.step_elapsed
                       /\ sc'.signal_heads = sc.signal_heads]_vars

\* A request accepted in GREEN after some of the green has run, and (next
\* definition) one accepted in ALL_RED with its timer running.
C30_Witness ==
    /\ sc.is_preempted
    /\ sc.preemption_direction = "E"
    /\ last_req = "E"
    /\ sc.current_step = "YELLOW"
    /\ sc.step_elapsed = 0
    /\ prev_step = "GREEN"
    /\ sc.current_phase_idx = 1
    /\ sc.signal_heads["N"].vehicle_signal = "YELLOW"

C30_LateRequestReached ==
    /\ sc.is_preempted
    /\ last_req = "N"
    /\ sc.current_step = "ALL_RED"
    /\ sc.step_elapsed = 1
    /\ prev_step = "ALL_RED"

\* ------------------------------------------------------------------------
\* The tick loop
\* ------------------------------------------------------------------------
IsPrefix(a, b) == Len(a) <= Len(b) /\ a = SubSeq(b, 1, Len(a))

\* the sub-steps of one whole tick, in order
TickOrder(with_vision) ==
    (IF with_vision THEN <<"vision">> ELSE << >>)
        \o <<"state_machine", "monitor", "preemption">>
        \o [i \in 1..NumObservers |-> "observer"]

InTick == tc.pc \in {"vision", "state_machine", "monitor", "preemption", "observers"}

Ran(step) == \E i \in 1..Len(tc.trace) : tc.trace[i] = step

\* C21: within one tick the sub-steps run in the fixed order vision (only
\* when the vision interval has elapsed), state machine, conflict monitor,
\* preemption manager, observers, each at most once per registered callback;
\* the monitor reads the heads the state-machine step of the same tick left,
\* and every observer reads the state the four earlier steps left.
C21_TickOrder ==
    /\ IsPrefix(tc.trace, TickOrder(tc.was_due))
    /\ Ran("monitor") =>
           /\ tc.sm_heads.tick = tc.tick_count
           /\ tc.cm_heads = tc.sm_heads
    /\ Ran("observer") =>
           /\ tc.settled.tick = tc.tick_count
           /\ tc.seen = tc.settled

\* a tick in which the state-machine step changed a head has reached its
\* second observer, on a tick that also ran vision
C21_Witness ==
    /\ tc.pc = "observers"
    /\ tc.obs_idx = NumObservers
    /\ tc.trace = TickOrder(TRUE)
    /\ tc.tick_count > 1
    /\ sc.step_elapsed = 0
    /\ sc.current_step = "YELLOW"

\* a whole tick without a vision update
C21_NoVisionTick ==
    /\ tc.pc = "observers"
    /\ tc.obs_idx = NumObservers
    /\ tc.trace = TickOrder(FALSE)

\* C22: an observer that raises does not crash the tick loop: the remaining
\* observers still run, run() goes on ticking and is_running stays true.
C22_ObserverFailureContained ==
    [][(tc.pc = "observers" /\ tc'.failure = "observer")
           => /\ tc'.is_running = tc.is_running
              /\ tc'.pc = "observers"]_vars

\* the first observer of a tick raised while run() was looping
C22_Reached ==
    /\ tc.failure = "observer"
    /\ tc.obs_idx = 1

\* C23: when detect() fails on a tick where vision is due, the lane queue
\* counts stay as they were and the tick is still completed.
C23_DetectionFailureContained ==
    [][(tc.pc = "vision" /\ tc'.failure = "detect")
           => /\ tc'.queue = tc.queue
              /\ tc'.pc = after_substep("vision")]_vars

\* detect() raised after an earlier frame had stored a queue
C23_Reached ==
    /\ tc.failure = "detect"
    /\ tc.queue > 0

TicksInRun == tc.tick_count - tc.start_count

TickStarts == tc.pc = "loop" /\ tc'.pc = "vision"

C24_StoppedReached ==
    /\ tc.pc = "returned"
    /\ tc.limited
    /\ tc.stopped
    /\ TicksInRun < tc.max_ticks

\* ------------------------------------------------------------------------
\* Frame of the conflict monitor
\* ------------------------------------------------------------------------
ControlState(s) ==
    [phase_ring |-> s.phase_ring, current_phase_idx |-> s.current_phase_idx,
     current_step |-> s.current_step, step_elapsed |-> s.step_elapsed,
     cycle_count |-> s.cycle_count, is_preempted |-> s.is_preempted,
     preemption_direction |-> s.preemption_direction,
     cycle_complete_calls |-> s.cycle_complete_calls,
     last_cycle_count |-> s.last_cycle_count]

\* C31 (SpecMon): a call of ConflictMonitor.check() leaves the state
\* machine's control state as it was (phase index, step, step timer, cycle
\* count, preemption flag and direction, every phase's timing fields),
\* whether or not it finds a conflict; the heads change only when the call
\* latches a fault, and then to the fault display.
C31_CheckFrame ==
    [][MonitorCheck =>
          /\ ControlState(sc') = ControlState(sc)
          /\ pm' = pm
          /\ sc'.signal_heads # sc.signal_heads =>
                 /\ ~cm.fault_active /\ cm'.fault_active
                 /\ AllRed(sc'.signal_heads)]_vars

\* check() has found a conflict and forced the fault display while the state
\* machine stands in a GREEN step
C31_Witness ==
    /\ cm.fault_active
    /\ cm.conflict_count > 0
    /\ AllRed(sc.signal_heads)
    /\ sc.current_step = "GREEN"
    /\ sc.step_elapsed > 0

\* ------------------------------------------------------------------------
\* The cycle-level wrapper of the enforcer
\* ------------------------------------------------------------------------
\* C32 (as stated): enforce_cycle applied to a list enforce_cycle returned
\* gives the same list, field by field, for any phases and constraints.
C32_CycleIdempotent ==
    (bench.last = "enforce_cycle" /\ bench.calls = 2) => bench.phases = bench.prev

\* C32 (amended): enforce_cycle applied to a list enforce_cycle returned
\* gives the same list whenever the cycle total of that list is within
\* [min_cycle_s, max_cycle_s].
C32_CycleIdempotentInBounds ==
    (/\ bench.last = "enforce_cycle"
     /\ bench.calls = 2
     /\ InCycleBounds(bench.c, bench.prev)) => bench.phases = bench.prev

\* a second call on a list the first call had scaled into the cycle bounds
C32_Witness ==
    /\ bench.last = "enforce_cycle"
    /\ bench.calls = 2
    /\ InCycleBounds(bench.c, bench.prev)
    /\ \E i \in 1..Len(bench.input) :
          /\ bench.prev[i].green_time_s # enforce(bench.c, bench.input[i]).green_time_s

\* ------------------------------------------------------------------------
\* The preemption manager's events
\* ------------------------------------------------------------------------
EventLeavesActive == is_active(pm) /\ pm'.active_event.id # pm.active_event.id

\* C33 (Spec): an active event is not cleared, by the auto-clear of tick()
\* or by clear(), before min_hold_s has elapsed since its activation.
C33_MinHoldHonoured ==
    [][EventLeavesActive => pm.hold_elapsed >= pm.active_event.min_hold_s]_vars

\* C34 (Spec): with preemption driven through the PreemptionManager only,
\* active_event is set exactly when the state machine's is_preempted is
\* true, and preemption_direction is then the active event's direction
\* (None otherwise).
C34_ManagerAndMachineAgree ==
    /\ is_active(pm) <=> sc.is_preempted
    /\ sc.preemption_direction = pm.active_event.direction

\* a queued event for another approach has taken over from the first one
C34_Witness ==
    /\ is_active(pm)
    /\ pm.history # << >>
    /\ pm.active_event.direction # pm.history[1].direction
    /\ sc.is_preempted
    /\ sc.preemption_direction = pm.active_event.direction

\* every event the manager holds: the queue, the active one, the history
HeldEvents ==
    pm.pending \o (IF is_active(pm) THEN <<pm.active_event>> ELSE << >>) \o pm.history

\* C35 (Spec): after any sequence of request, tick and clear every requested
\* event is in exactly one of pending, active_event and history; pending
\* events are not activated, the active event is activated and not cleared,
\* history events are activated and cleared; pending is non-empty only
\* while an event is active.
C35_EventsConserved ==
    /\ Len(HeldEvents) = num_requests
    /\ {HeldEvents[i].id : i \in 1..Len(HeldEvents)} = 1..num_requests
    /\ \A i \in 1..Len(pm.pending) :
          ~pm.pending[i].activated /\ ~pm.pending[i].cleared
    /\ is_active(pm) => (pm.active_event.activated /\ ~pm.active_event.cleared)
    /\ \A i \in 1..Len(pm.history) :
          pm.history[i].activated /\ pm.history[i].cleared
    /\ pm.pending # << >> => is_active(pm)

\* the first event is in the history and the event queued behind it is active
C35_Witness ==
    /\ num_requests = MaxEvents
    /\ Len(pm.history) = 1
    /\ is_active(pm)
    /\ pm.pending = << >>

\* an event waits in the queue behind the active one
C35_QueuedReached ==
    /\ is_active(pm)
    /\ pm.pending # << >>

\* ------------------------------------------------------------------------
\* Reading status
\* ------------------------------------------------------------------------
\* C36 (SpecStatus): get_full_status() and get_diagnostics() leave the
\* engine's smoothed degree-of-saturation state and every phase field as
\* they were, so the next cycle plan is the one that would have been
\* computed had status never been read.
C36_StatusReadOnly ==
    /\ [][GetDiagnostics => (engine'.prev_ds = engine.prev_ds /\ bench' = bench)]_vars
    /\ [](engine.plan # NoPlan =>
              engine.plan = compute_cycle_plan(bench.c, engine.intersection,
                                               engine.unread_ds, bench.input))

\* a plan computed after a status read differs in its greens from the plan
\* of the same queues without the read
C36_PlanDiffers ==
    /\ engine.plan # NoPlan
    /\ engine.reads > 0
    /\ engine.plan.phase_greens #
           compute_cycle_plan(bench.c, engine.intersection,
                              engine.unread_ds, bench.input).phase_greens

\* ------------------------------------------------------------------------
\* Progress of the ring
\* ------------------------------------------------------------------------
PhaseIndices == 0..(Len(SignalController_init.phase_ring) - 1)

InGreenOf(i) ==
    /\ sc.current_phase_idx = i
    /\ sc.current_step = "GREEN"
    /\ ~sc.is_preempted

\* C37 (SpecSCLive): with ticks continuing and time advancing, if from some
\* point on no preemption is active, then as long as the cycle counter has
\* not reached the bound of the model every phase of the ring reaches its
\* GREEN step again, every direction's vehicle head shows GREEN again, and
\* the cycle counter goes on to its next value.
C37_NoStarvation ==
    (<>[](~sc.is_preempted)) =>
        /\ \A i \in PhaseIndices : (sc.cycle_count < MaxCycles) ~> InGreenOf(i)
        /\ \A d \in Direction :
              (sc.cycle_count < MaxCycles) ~> (sc.signal_heads[d].vehicle_signal = "GREEN")
        /\ \A k \in 0..(MaxCycles - 1) :
              (sc.cycle_count = k) ~> (sc.cycle_count = k + 1)

\* the ring has completed a cycle and gone on to the GREEN step of its last
\* phase, with no preemption outstanding
C37_Witness ==
    /\ sc.cycle_count = MaxCycles
    /\ InGreenOf(Len(sc.phase_ring) - 1)
    /\ last_req = None

\* C38 (SpecSC): no step taken while is_preempted is true changes
\* current_phase_idx or cycle_count or calls on_cycle_complete, the step
\* that clears the preemption included, and the step that sets is_preempted
\* leaves the phase index as it is: no cycle completes during a preemption
\* and the ring resumes from the index at which it was preempted.
C38_RingFrozenWhilePreempted ==
    [][(sc.is_preempted \/ sc'.is_preempted) =>
           /\ sc'.current_phase_idx = sc.current_phase_idx
           /\ sc'.cycle_count = sc.cycle_count
           /\ sc'.cycle_complete_calls = sc.cycle_complete_calls]_vars

\* a hold entered from the last phase of the ring has outlasted every step
\* duration
C38_Witness ==
    /\ sc.is_preempted
    /\ sc.current_step = "GREEN"
    /\ sc.current_phase_idx = Len(sc.phase_ring) - 1
    /\ sc.step_elapsed = ElapsedCap
    /\ sc.cycle_count = 0

\* ------------------------------------------------------------------------
\* Pedestrian displays
\* ------------------------------------------------------------------------
Crosses(d, e) == <<d, e>> \in CONFLICTING_PAIRS \/ <<e, d>> \in CONFLICTING_PAIRS

ShowsRed(head) ==
    /\ head.vehicle_signal \in {"RED", "ALL_RED"}
    /\ head.left_turn_signal \in {"RED", "ALL_RED"}

\* C39 (Spec): whenever a direction's pedestrian head shows WALK, the
\* machine is in the GREEN step of a through phase that serves the
\* direction, with no preemption, the direction's vehicle head is GREEN, no
\* left-turn head shows GREEN_ARROW and the vehicle and left-turn heads of
\* every crossing direction are red; PED_CLEARANCE is shown only while the
\* same direction's vehicle head is YELLOW.
C39_PedestrianSafety ==
    \A d \in Direction :
        /\ sc.signal_heads[d].pedestrian_signal = "WALK" =>
               /\ ~current_phase(sc).is_left_turn
               /\ d \in current_phase(sc).served_directions
               /\ sc.current_step = "GREEN"
               /\ ~sc.is_preempted
               /\ sc.signal_heads[d].vehicle_signal = "GREEN"
               /\ \A e \in Direction : sc.signal_heads[e].left_turn_signal # "GREEN_ARROW"
               /\ \A e \in Direction : Crosses(d, e) => ShowsRed(sc.signal_heads[e])
        /\ sc.signal_heads[d].pedestrian_signal = "PED_CLEARANCE" =>
               sc.signal_heads[d].vehicle_signal = "YELLOW"

\* WALK is shown to the east-west crossing after a preemption has been served
C39_Witness ==
    /\ sc.signal_heads["E"].pedestrian_signal = "WALK"
    /\ sc.signal_heads["W"].pedestrian_signal = "WALK"
    /\ pm.history # << >>
    /\ ~is_active(pm)

\* a preemption request has cut a WALK short: PED_CLEARANCE with the
\* machine preempted
C39_ClearanceReached ==
    /\ sc.is_preempted
    /\ sc.signal_heads["N"].pedestrian_signal = "PED_CLEARANCE"
    /\ sc.step_elapsed = 0

\* ------------------------------------------------------------------------
\* Preemption requests are served and released
\* ------------------------------------------------------------------------
EventIds == 1..MaxEvents

Requested(id) == num_requests >= id

Queued(id) == \E i \in 1..Len(pm.pending) : pm.pending[i].id = id

Active(id) == is_active(pm) /\ pm.active_event.id = id

Released(id) == \E i \in 1..Len(pm.history) : pm.history[i].id = id /\ pm.history[i].cleared

Quiet == ~sc.is_preempted /\ ~is_active(pm) /\ pm.pending = << >>

\* C40 (SpecHoldLive): with ticks continuing and clear() never called,
\* an event enters history only from being the active event, and eventually
\* and for good every event requested through the PreemptionManager is in
\* history as cleared, no event is active or pending and the state machine
\* is not preempted.
C40_ServedAndReleased ==
    /\ [][\A id \in EventIds : ~Released(id) /\ Released(id)' => Active(id)]_vars
    /\ <>[](Quiet /\ \A id \in EventIds : Requested(id) => Released(id))

\* both events have been requested, the second while the first was active,
\* and both have been released by the timeout alone
C40_Witness ==
    /\ num_requests = MaxEvents
    /\ Len(pm.history) = MaxEvents
    /\ \A id \in EventIds : Released(id)
    /\ Quiet

\* an event waits in pending behind the active one
C40_QueuedReached ==
    /\ Active(1)
    /\ Queued(2)

====
